---- MODULE Spec2Model ----
(***************************************************************************)
(* Model of the briefing dashboard: the generateBriefing retry/fallback    *)
(* pipeline (services/geminiService.ts and its sibling revisions) and the  *)
(* UI session that drives it (App).                                        *)
(***************************************************************************)
EXTENDS Integers, Sequences, FiniteSets, TLC

VARIABLES
    \* ---- one generateBriefing call ----
    variant,        \* which revision of generateBriefing.attempt runs
    userModelId,    \* config?.modelId || PRIMARY_MODEL
    gpc,            \* "idle" | "calling" | "backoff" | "returned" | "thrown"
    mId,            \* attempt's mId
    retryCount,     \* attempt's retryCount
    waitTime,       \* ms of the pending setTimeout (0 when none)
    calls,          \* provider calls issued so far: [model, level, waited]
    outcomes,       \* how the resolved provider calls ended (kinds)
    result,         \* payload returned, or NoPayload
    thrownMsg,      \* message of the Error thrown, or ""
    inFlight,       \* provider calls issued and not yet resolved
    failMsgs,       \* message of the failure of each failed provider call
    apiKey,         \* config?.apiKey || '' : "" when no key is resolvable
    \* ---- the UI session (App) ----
    mounted,        \* the mount effects have run
    status,         \* AppStatus
    data,           \* "null" or "payload"
    lastAutoRunDate,\* 0 for "", else the day of the last scheduled run
    isSendingEmail,
    emails,         \* TRUE when some recipient field is not blank
    cycles,         \* the handleGenerate invocations that have not finished
    connChecks,     \* initConnection invocations awaiting checkConnectivity
    manualSends,    \* manual executeEmailSend invocations awaiting sendEmail
    day,            \* Beijing calendar day
    phase,          \* "early" | "trigger" (the 09:00 minute) | "late"
    autoStarts,     \* per day, scheduled generations started
    sendLog,        \* the latest log line of a send: "none" | "sent" | "failed"
    \* ---- one connectivity probe (checkConnectivity / connectToOpenAI) ----
    pvariant,       \* which revision of connectToOpenAI runs
    pkey,           \* config.apiKey
    ppc,            \* "idle" | "direct" | "relay" | "done"
    directOut,      \* how the direct listing request ended
    relayRequests,  \* requests sent to /api/generate?action=list_models
    plisting,       \* the model list of the last listing response received
    preturned,      \* TRUE when connectToOpenAI returned a list
    plist,          \* the list connectToOpenAI returned
    connected,      \* what checkConnectivity returned: "pending" | "true" | "false"
    \* ---- one application of extractAndRepairJson / balanceJson ----
    rvariant,       \* which revision of extractAndRepairJson runs
    rin,            \* the text passed in
    rpc,            \* "start" | "done"
    rop,            \* the function applied: "none" | "extract" | "balance"
    rout,           \* the text returned
    \* ---- parseUrlConfig applied, and applied again ----
    uvariant,       \* which revision of parseUrlConfig runs
    uin,            \* the urlStr passed in
    upc,            \* "start" | "once" | "twice"
    uout,           \* the baseUrl returned
    uout2,          \* the baseUrl returned for uout
    \* ---- one request to a handler that posts to the email relay ----
    mvariant,       \* which handler revision runs
    envFrom,        \* process.env.EMAIL_FROM
    envResendKey,   \* TRUE when process.env.RESEND_API_KEY is set
    mpc,            \* "start" | "posted" | "answered"
    postedFrom,     \* the from field of the request sent to the relay
    relayAnswer,    \* what the relay answered
    mailAnswer,     \* what the handler answered
    \* ---- the /api/generate handler (api/generate.js 161-330, part_004) ----
    hVariant,       \* which revision of the handler runs
    reqMethod,      \* request.method
    reqListAction,  \* request.query.action === 'list_models', once read
    reqHasDate,     \* request.body.date is truthy, once read
    reqKey,         \* the x-custom-api-key header, as sent
    reqBaseUrl,     \* the x-custom-base-url header, as sent
    reqModel,       \* the x-custom-model header, as sent
    envApiKey,      \* process.env.API_KEY
    envModelId,     \* process.env.GEMINI_MODEL_ID
    hpc,            \* "start", "listing", "calling", "answered"
    keyUsed,        \* the apiKey that the calls carry
    baseUrlUsed,    \* the baseUrl that the calls go to
    modelsCalled,   \* model ids of the completions requested, in order
    hLevel,         \* retryLevel of the running attempt
    hAnswer,        \* status of the handler's answer, 0 before it
    hEnds,          \* how the completions requested ended, in order
    \* ---- generateHtml (api/cron.js 233-258) ----
    payload,        \* the parsed content handed to generateHtml
    html,           \* the HTML it returned, as a sequence of pieces
    rendered,       \* generateHtml has run
    \* ---- App with a cooldown (App.tsx 468-558) ----
    appRevision,    \* "part_008" or "App.tsx"
    tsxMounted,     \* the mount effect has run
    tsxStatus,      \* AppStatus
    tsxData,        \* "null" or "payload"
    tsxCycles,      \* which handleGenerate invocations await generateBriefing
    tsxConnChecks,  \* initConnection invocations awaiting checkConnectivity
    cooldown,       \* seconds of cooldown left
    tsxLastEnd,     \* how the last generateBriefing of the session ended
    \* ---- the cron handler (api/cron.js) ----
    cronVariant,    \* "cron1" (api/cron.js 5-137) or "cron2" (143-285)
    cronApiKey,     \* process.env.API_KEY
    cronResendKey,  \* process.env.RESEND_API_KEY
    cronRecipientList, \* process.env.RECIPIENT_LIST
    cronPc,         \* "start", "generating", "sending", "answered"
    cronCalls,      \* the outbound calls so far: "provider", "relay"
    cronCompletion, \* how the completion ended
    cronRelayEnd,   \* how the fetch of the relay ended
    cronStatus,     \* status of the handler's answer, 0 before it
    \* ---- sending from the UI (part_008 177-200, App.tsx 121-150) ----
    sVariant,       \* "p008" (part_008) or "app1" (App.tsx 1-150)
    sMounted,       \* the mount effect has run
    sStatus,        \* AppStatus
    sData,          \* "null" or "payload"
    sEmails,        \* the recipient fields
    sSending,       \* isSendingEmail
    sCycle,         \* the handleGenerate in flight: "none", "manual", "auto"
    sRanToday,      \* lastAutoRunDate is today's date
    sInFlight,      \* sendEmail calls awaiting their result
    sDispatched,    \* the sendEmail calls made so far
    \* ---- the stability-priority strategy (part_001 91-149, part_006 133-180) ----
    spVariant,      \* which revision of the strategy runs
    spPrimary,      \* PRIMARY_MODEL
    spFallback,     \* FALLBACK_MODEL
    spPc,           \* "idle", "calling", "waiting", "returned", "threw"
    spCalls,        \* the generateContent calls made, in order
    spEnds          \* how the calls that settled ended, in order

genVars == <<variant, userModelId, gpc, mId, retryCount, waitTime, calls,
             outcomes, result, thrownMsg, inFlight, failMsgs, apiKey>>

appVars == <<mounted, status, data, lastAutoRunDate, isSendingEmail, emails,
             cycles, connChecks, manualSends, day, phase, autoStarts, sendLog>>

probeVars == <<pvariant, pkey, ppc, directOut, relayRequests, plisting,
               preturned, plist, connected>>

repairVars == <<rvariant, rin, rpc, rop, rout>>

urlVars == <<uvariant, uin, upc, uout, uout2>>

mailVars == <<mvariant, envFrom, envResendKey, mpc, postedFrom, relayAnswer, mailAnswer>>

handlerVars == <<hVariant, reqMethod, reqListAction, reqHasDate, reqKey, reqBaseUrl, reqModel, envApiKey, envModelId,
                hpc, keyUsed, baseUrlUsed, modelsCalled, hLevel, hAnswer, hEnds>>

renderVars == <<payload, html, rendered>>

tsxVars == <<appRevision, tsxMounted, tsxStatus, tsxData, tsxCycles, tsxConnChecks, cooldown,
            tsxLastEnd>>

cronVars == <<cronVariant, cronApiKey, cronResendKey, cronRecipientList, cronPc, cronCalls, cronCompletion, cronRelayEnd, cronStatus>>

senderVars == <<sVariant, sMounted, sStatus, sData, sEmails, sSending, sCycle, sRanToday, sInFlight, sDispatched>>

stratVars == <<spVariant, spPrimary, spFallback, spPc, spCalls, spEnds>>

\* what the handlers of one component leave alone
nonGenVars == <<appVars, probeVars, repairVars, urlVars, mailVars, handlerVars, renderVars, tsxVars, cronVars, senderVars, stratVars>>
nonAppVars == <<genVars, probeVars, repairVars, urlVars, mailVars, handlerVars, renderVars, tsxVars, cronVars, senderVars, stratVars>>
nonProbeVars == <<genVars, appVars, repairVars, urlVars, mailVars, handlerVars, renderVars, tsxVars, cronVars, senderVars, stratVars>>
nonRepairVars == <<genVars, appVars, probeVars, urlVars, mailVars, handlerVars, renderVars, tsxVars, cronVars, senderVars, stratVars>>
nonUrlVars == <<genVars, appVars, probeVars, repairVars, mailVars, handlerVars, renderVars, tsxVars, cronVars, senderVars, stratVars>>
nonMailVars == <<genVars, appVars, probeVars, repairVars, urlVars, handlerVars, renderVars, tsxVars, cronVars, senderVars, stratVars>>
nonHandlerVars == <<genVars, appVars, probeVars, repairVars, urlVars, mailVars, renderVars, tsxVars, cronVars, senderVars, stratVars>>
nonRenderVars == <<genVars, appVars, probeVars, repairVars, urlVars, mailVars, handlerVars, tsxVars, cronVars, senderVars, stratVars>>
nonTsxVars == <<genVars, appVars, probeVars, repairVars, urlVars, mailVars, handlerVars, renderVars, cronVars, senderVars, stratVars>>
nonCronVars == <<genVars, appVars, probeVars, repairVars, urlVars, mailVars, handlerVars, renderVars, tsxVars, senderVars, stratVars>>
nonSenderVars == <<genVars, appVars, probeVars, repairVars, urlVars, mailVars, handlerVars, renderVars, tsxVars, cronVars, stratVars>>
nonStratVars == <<genVars, appVars, probeVars, repairVars, urlVars, mailVars, handlerVars, renderVars, tsxVars, cronVars, senderVars>>

vars == <<variant, userModelId, gpc, mId, retryCount, waitTime, calls,
          outcomes, result, thrownMsg, inFlight, failMsgs, apiKey,
          mounted, status, data, lastAutoRunDate, isSendingEmail, emails,
          cycles, connChecks, manualSends, day, phase, autoStarts, sendLog,
          pvariant, pkey, ppc, directOut, relayRequests, plisting,
          preturned, plist, connected,
          rvariant, rin, rpc, rop, rout,
          uvariant, uin, upc, uout, uout2,
          mvariant, envFrom, envResendKey, mpc, postedFrom, relayAnswer, mailAnswer,
          hVariant, reqMethod, reqListAction, reqHasDate, reqKey, reqBaseUrl, reqModel, envApiKey, envModelId,
          hpc, keyUsed, baseUrlUsed, modelsCalled, hLevel, hAnswer, hEnds,
          payload, html, rendered,
          appRevision, tsxMounted, tsxStatus, tsxData, tsxCycles, tsxConnChecks, cooldown, tsxLastEnd,
          cronVariant, cronApiKey, cronResendKey, cronRecipientList, cronPc, cronCalls, cronCompletion, cronRelayEnd, cronStatus,
          sVariant, sMounted, sStatus, sData, sEmails, sSending, sCycle, sRanToday, sInFlight, sDispatched,
          spVariant, spPrimary, spFallback, spPc, spCalls, spEnds>>

----------------------------------------------------------------------------
(* Constants of the service module *)

PRIMARY_MODEL == "gemini-1.5-pro"
FALLBACK_MODEL == "gemini-1.5-flash"
SECONDARY_FALLBACK_MODEL == "gpt-4o-mini"

\* A user-supplied modelId that is none of the three constants.
CustomModel == "custom-model"

ModelIds == {PRIMARY_MODEL, FALLBACK_MODEL, SECONDARY_FALLBACK_MODEL, CustomModel}

\* The revisions of generateBriefing.attempt:
\*   gs2  = services/geminiService.ts 365-448
\*   gs3  = services/geminiService.ts 552-625
\*   p000 = part_000 133-218
\*   p002 = part_002 64-121
Variants == {"gs2", "gs3", "p000", "p002"}

\* retryCount < 3
RetryCeiling == 3

RECURSIVE Pow2(_)
Pow2(n) == IF n = 0 THEN 1 ELSE 2 * Pow2(n - 1)

\* faulty variation: the exponent is retryCount instead of retryCount + 1
WaitTimeMs_offByOne(r) == Pow2(r) * 1000

\* Math.pow(2, retryCount + 1) * 1000
WaitTimeMs(r) == Pow2(r + 1) * 1000

----------------------------------------------------------------------------
(* What one provider call can resolve to *)

FieldStates == {"missing", "empty", "items"}

NoPayload == [general |-> "none", medical |-> "none", viral |-> "none"]

\* Parsed JSON objects, by the state of the three fields the code looks at.
Payloads == [general : FieldStates, medical : FieldStates, viral : {"missing", "items"}]

\* kinds of failure of one provider call
\*   http429/http400/http500 : the SDK threw an APIError with that status
\*   network                 : the SDK threw without a status
\*   safety                  : finish_reason content_filter / safety
\*   empty                   : no content, no refusal
\*   refusal, refusal429     : no content, message.refusal set (its text
\*                             mentioning "429" or not)
\*   badJson                 : content that does not parse after repair
\*   shortText               : short content without any '{'
FailureKinds == {"http429", "http400", "http500", "network", "safety",
                 "empty", "refusal", "refusal429", "badJson", "shortText"}

ProviderOutcomes ==
    [kind : FailureKinds, payload : {NoPayload}]
      \cup [kind : {"json"}, payload : Payloads]

\* The Error objects the catch block sees.
Err(st, has429, has400, msg) ==
    [status |-> st, says429 |-> has429, says400 |-> has400, msg |-> msg]

\* Errors thrown by client.chat.completions.create (OpenAI SDK: the message
\* starts with the status code).
SdkError(kind) ==
    CASE kind = "http429" -> Err(429, TRUE, FALSE, "429 rate limit")
      [] kind = "http400" -> Err(400, FALSE, TRUE, "400 bad request")
      [] kind = "http500" -> Err(500, FALSE, FALSE, "500 server error")
      [] OTHER            -> Err(0, FALSE, FALSE, "Connection error.")

Ok(p) == [ok |-> TRUE, payload |-> p, err |-> Err(0, FALSE, FALSE, "")]
Fail(e) == [ok |-> FALSE, payload |-> NoPayload, err |-> e]

IsSdkError(o) == o.kind \in {"http429", "http400", "http500", "network"}

\* if (!content) { refusal ? "Model Refusal: ..." : "API returned an empty body." }
NoContentError(o) ==
    CASE o.kind = "refusal"    -> Err(0, FALSE, FALSE, "Model Refusal")
      [] o.kind = "refusal429" -> Err(0, TRUE, FALSE, "Model Refusal 429")
      [] OTHER                 -> Err(0, FALSE, FALSE, "API returned an empty body.")

SafetyError == Err(0, FALSE, FALSE, "Content generation blocked by safety filters.")
SyntaxError == Err(0, FALSE, FALSE, "Failed to parse model output as JSON (Syntax Error).")

\* geminiService.ts 380-415: try block of attempt
Try_gs2(o) ==
    IF IsSdkError(o) THEN Fail(SdkError(o.kind))
    ELSE IF o.kind = "safety" THEN Fail(SafetyError)
    ELSE IF o.kind \in {"empty", "refusal", "refusal429"} THEN Fail(NoContentError(o))
    ELSE IF o.kind = "json" THEN
        \* if (!parsed.x) parsed.x = []
        Ok([general |-> IF o.payload.general = "missing" THEN "empty" ELSE o.payload.general,
            medical |-> IF o.payload.medical = "missing" THEN "empty" ELSE o.payload.medical,
            viral   |-> IF o.payload.viral = "missing" THEN "empty" ELSE o.payload.viral])
    ELSE IF o.kind = "shortText" THEN Fail(Err(0, FALSE, FALSE, "Model Refusal"))
    ELSE Fail(SyntaxError)

\* faulty variation: the parsed object is returned without the key-field check
Try_gs3_nocheck(o) ==
    IF IsSdkError(o) THEN Fail(SdkError(o.kind))
    ELSE IF o.kind = "safety" THEN Fail(SafetyError)
    ELSE IF o.kind \in {"empty", "refusal", "refusal429"} THEN Fail(NoContentError(o))
    ELSE IF o.kind = "json" THEN Ok(o.payload)
    ELSE Fail(SyntaxError)

\* geminiService.ts 567-598: try block of attempt
Try_gs3(o) ==
    IF IsSdkError(o) THEN Fail(SdkError(o.kind))
    ELSE IF o.kind = "safety" THEN Fail(SafetyError)
    ELSE IF o.kind \in {"empty", "refusal", "refusal429"} THEN Fail(NoContentError(o))
    ELSE IF o.kind = "json" THEN
        \* if (!parsed.general_news && !parsed.viral_titles) throw ...
        IF o.payload.general = "missing" /\ o.payload.viral = "missing"
        THEN Fail(SyntaxError)
        ELSE Ok(o.payload)
    ELSE Fail(SyntaxError)

\* part_000 161-192: try block of attempt
Try_p000(o) ==
    IF IsSdkError(o) THEN Fail(SdkError(o.kind))
    ELSE IF o.kind = "safety" THEN Fail(SafetyError)
    ELSE IF o.kind \in {"empty", "refusal", "refusal429"} THEN Fail(NoContentError(o))
    ELSE IF o.kind = "json" THEN
        IF o.payload.general = "missing" /\ o.payload.viral = "missing"
        THEN Fail(Err(0, FALSE, FALSE, "Failed to parse model output as JSON."))
        ELSE Ok(o.payload)
    ELSE Fail(Err(0, FALSE, FALSE, "Failed to parse model output as JSON."))

\* part_002 90-94: try block of attempt
Try_p002(o) ==
    IF IsSdkError(o) THEN Fail(SdkError(o.kind))
    ELSE IF o.kind \in {"safety", "empty", "refusal", "refusal429"}
        THEN Fail(Err(0, FALSE, FALSE, "API returned an empty body."))
    ELSE IF o.kind = "json" THEN Ok(o.payload)
    ELSE Fail(Err(0, FALSE, FALSE, "SyntaxError"))

TryBlock(v, o) ==
    CASE v = "gs2"  -> Try_gs2(o)
      [] v = "gs3"  -> Try_gs3(o)
      [] v = "p000" -> Try_p000(o)
      [] OTHER      -> Try_p002(o)

----------------------------------------------------------------------------
(* The catch block of attempt: what follows a failed provider call *)

Retry(m, r, w) == [kind |-> "retry", model |-> m, level |-> r, wait |-> w, msg |-> ""]
CallNext(m, r) == [kind |-> "call", model |-> m, level |-> r, wait |-> 0, msg |-> ""]
Throw(msg)     == [kind |-> "throw", model |-> "", level |-> 0, wait |-> 0, msg |-> msg]

\* status == 429 || e.message.includes("429")
IsRateLimited(e) == e.status = 429 \/ e.says429

\* faulty variation: the error thrown at the end carries a fixed message
Catch_gs2_fixedMsg(m, r, e) ==
    IF IsRateLimited(e) /\ r < RetryCeiling THEN Retry(m, r + 1, WaitTimeMs(r))
    ELSE IF IsRateLimited(e) /\ m = PRIMARY_MODEL THEN CallNext(FALLBACK_MODEL, 0)
    ELSE IF e.says400 /\ m = PRIMARY_MODEL THEN CallNext(FALLBACK_MODEL, 1)
    ELSE IF r = 0 /\ m = PRIMARY_MODEL THEN CallNext(FALLBACK_MODEL, 1)
    ELSE IF r = 0 /\ m = FALLBACK_MODEL THEN CallNext(SECONDARY_FALLBACK_MODEL, 1)
    ELSE Throw("Request failed.")

\* geminiService.ts 417-447
Catch_gs2(m, r, e) ==
    IF IsRateLimited(e) /\ r < RetryCeiling THEN Retry(m, r + 1, WaitTimeMs(r))
    ELSE IF IsRateLimited(e) /\ m = PRIMARY_MODEL THEN CallNext(FALLBACK_MODEL, 0)
    ELSE IF e.says400 /\ m = PRIMARY_MODEL THEN CallNext(FALLBACK_MODEL, 1)
    ELSE IF r = 0 /\ m = PRIMARY_MODEL THEN CallNext(FALLBACK_MODEL, 1)
    ELSE IF r = 0 /\ m = FALLBACK_MODEL THEN CallNext(SECONDARY_FALLBACK_MODEL, 1)
    ELSE Throw(e.msg)

\* faulty variation: the fallback constants are swapped
Catch_gs3_swapped(m, r, e) ==
    IF IsRateLimited(e) /\ r < RetryCeiling THEN Retry(m, r + 1, WaitTimeMs(r))
    ELSE IF IsRateLimited(e) /\ m = PRIMARY_MODEL THEN CallNext(SECONDARY_FALLBACK_MODEL, 0)
    ELSE IF r = 0 /\ m = PRIMARY_MODEL THEN CallNext(SECONDARY_FALLBACK_MODEL, 1)
    ELSE IF r = 0 /\ m = SECONDARY_FALLBACK_MODEL THEN CallNext(FALLBACK_MODEL, 1)
    ELSE Throw(e.msg)

\* geminiService.ts 600-624
Catch_gs3(m, r, e) ==
    IF IsRateLimited(e) /\ r < RetryCeiling THEN Retry(m, r + 1, WaitTimeMs(r))
    ELSE IF IsRateLimited(e) /\ m = PRIMARY_MODEL THEN CallNext(FALLBACK_MODEL, 0)
    ELSE IF r = 0 /\ m = PRIMARY_MODEL THEN CallNext(FALLBACK_MODEL, 1)
    ELSE IF r = 0 /\ m = FALLBACK_MODEL THEN CallNext(SECONDARY_FALLBACK_MODEL, 1)
    ELSE Throw(e.msg)

\* faulty variation: only the primary model is retried after a 429
Catch_p_primaryOnly(m, r, e) ==
    IF IsRateLimited(e) /\ r < RetryCeiling /\ m = PRIMARY_MODEL
        THEN Retry(m, r + 1, WaitTimeMs(r))
    ELSE IF IsRateLimited(e) /\ m = PRIMARY_MODEL THEN CallNext(FALLBACK_MODEL, 0)
    ELSE IF IsRateLimited(e) /\ m = FALLBACK_MODEL THEN CallNext(SECONDARY_FALLBACK_MODEL, 0)
    ELSE IF r = 0 /\ m = PRIMARY_MODEL THEN CallNext(FALLBACK_MODEL, 1)
    ELSE Throw(e.msg)

\* faulty variation: the retry test is retryCount <= 3
Catch_p_oneMore(m, r, e) ==
    IF IsRateLimited(e) /\ r <= RetryCeiling THEN Retry(m, r + 1, WaitTimeMs(r))
    ELSE IF IsRateLimited(e) /\ m = PRIMARY_MODEL THEN CallNext(FALLBACK_MODEL, 0)
    ELSE IF IsRateLimited(e) /\ m = FALLBACK_MODEL THEN CallNext(SECONDARY_FALLBACK_MODEL, 0)
    ELSE IF r = 0 /\ m = PRIMARY_MODEL THEN CallNext(FALLBACK_MODEL, 1)
    ELSE Throw(e.msg)

\* part_000 194-217 and part_002 96-120 (the same text)
Catch_p(m, r, e) ==
    IF IsRateLimited(e) /\ r < RetryCeiling THEN Retry(m, r + 1, WaitTimeMs(r))
    ELSE IF IsRateLimited(e) /\ m = PRIMARY_MODEL THEN CallNext(FALLBACK_MODEL, 0)
    ELSE IF IsRateLimited(e) /\ m = FALLBACK_MODEL THEN CallNext(SECONDARY_FALLBACK_MODEL, 0)
    ELSE IF r = 0 /\ m = PRIMARY_MODEL THEN CallNext(FALLBACK_MODEL, 1)
    ELSE Throw(e.msg)

CatchBlock(v, m, r, e) ==
    CASE v = "gs2" -> Catch_gs2(m, r, e)
      [] v = "gs3" -> Catch_gs3(m, r, e)
      [] OTHER     -> Catch_p(m, r, e)


----------------------------------------------------------------------------
(* The UI session: App (part_008) *)

\* concurrent handleGenerate invocations the model follows
MaxCycles == 2
\* concurrent initConnection invocations the model follows
MaxConn == 2
\* calendar days the model follows
MaxDays == 2

CycleIds == 1..MaxCycles
NoCycle == [pc |-> "none", auto |-> FALSE]

\* useState initial values
AppConstructed ==
    /\ mounted = FALSE
    /\ status = "IDLE"
    /\ data = "null"
    /\ lastAutoRunDate = 0
    /\ isSendingEmail = FALSE
    /\ emails = FALSE
    /\ cycles = [k \in CycleIds |-> NoCycle]
    /\ connChecks = 0
    /\ manualSends = 0
    /\ day = 1
    /\ phase = "early"
    /\ autoStarts = [d \in 1..MaxDays |-> 0]
    /\ sendLog = "none"

----------------------------------------------------------------------------
(* The connectivity probe: state *)

\* models in one listing response the model follows
MaxModels == 2

\* model ids, numbered in their localeCompare order
ModelIdRanks == 1..MaxModels

RECURSIVE SeqsUpTo(_, _)
SeqsUpTo(S, n) ==
    IF n = 0 THEN {<<>>}
    ELSE LET shorter == SeqsUpTo(S, n - 1)
         IN  shorter \cup {Append(q, x) : q \in {t \in shorter : Len(t) = n - 1}, x \in S}

ModelLists == SeqsUpTo(ModelIdRanks, MaxModels)

\* The revisions of connectToOpenAI:
\*   gs1  = services/geminiService.ts 44-111
\*   p003 = part_003 38-113
\*   gs2  = services/geminiService.ts 311-331
ProbeVariants == {"gs1", "p003", "gs2"}

NoOutcome == [kind |-> "none", mentionsNet |-> FALSE, shape |-> "none", list |-> <<>>]

\* the probe before checkConnectivity is called
ProbeIdle ==
    /\ ppc = "idle"
    /\ directOut = NoOutcome
    /\ relayRequests = 0
    /\ plisting = <<>>
    /\ preturned = FALSE
    /\ plist = <<>>
    /\ connected = "pending"

\* the probe at rest, as the other components leave it
ProbeAtRest ==
    /\ pvariant = "gs1"
    /\ pkey = "sk-key"
    /\ ProbeIdle

----------------------------------------------------------------------------
(* Text as sequences of characters; JSON.parse *)

\* characters that need escaping inside a TLA+ string
QT == "\""
BS == "\\"
NL == "\n"
\* the backquote of a Markdown fence, by name: a string cannot hold it
TICK == "<backquote>"

\* \s of the regular expressions, and JSON's insignificant whitespace
IsWs(c) == c \in {" ", "\n", "\t", "\r"}

Digits == {"0", "1", "2", "3", "4", "5", "6", "7", "8", "9"}

RECURSIVE SkipWs(_, _)
\* the first index at or after i that holds no whitespace (Len(s) + 1 if none)
SkipWs(s, i) == IF i <= Len(s) /\ IsWs(s[i]) THEN SkipWs(s, i + 1) ELSE i

At(s, i) == IF i >= 1 /\ i <= Len(s) THEN s[i] ELSE "<end>"

PFail == [ok |-> FALSE, val |-> <<>>, next |-> 0]
POk(v, n) == [ok |-> TRUE, val |-> v, next |-> n]

\* the character an escape \c inside a JSON string stands for; \uXXXX is not
\* followed (no text of the model holds it)
Unescape(c) ==
    CASE c = "n" -> "\n"
      [] c = "t" -> "\t"
      [] c = "r" -> "\r"
      [] c = "f" -> "\f"
      [] c = "b" -> "<backspace>"
      [] OTHER -> c

SimpleEscapes == {QT, BS, "/", "b", "f", "n", "r", "t"}

RECURSIVE StringTail(_, _, _)
\* a JSON string from the character after its opening quote
StringTail(s, i, acc) ==
    IF i > Len(s) THEN PFail
    ELSE IF s[i] = QT THEN POk(<<"str", acc>>, i + 1)
    ELSE IF s[i] = BS
         THEN IF At(s, i + 1) \in SimpleEscapes
              THEN StringTail(s, i + 2, Append(acc, Unescape(s[i + 1])))
              ELSE PFail
    ELSE IF s[i] \in {"\n", "\t", "\r"} THEN PFail
    ELSE StringTail(s, i + 1, Append(acc, s[i]))

RECURSIVE DigitsEnd(_, _)
DigitsEnd(s, i) == IF At(s, i) \in Digits THEN DigitsEnd(s, i + 1) ELSE i

\* a JSON number without fraction or exponent: -? (0 | [1-9][0-9]*)
NumberAt(s, i) ==
    LET d == IF s[i] = "-" THEN i + 1 ELSE i
        e == IF At(s, d) = "0" THEN d + 1 ELSE DigitsEnd(s, d)
    IN  IF e = d THEN PFail ELSE POk(<<"num", SubSeq(s, i, e - 1)>>, e)

Literals == {<<"t", "r", "u", "e">>, <<"f", "a", "l", "s", "e">>, <<"n", "u", "l", "l">>}

LiteralAt(s, i) ==
    LET hits == {w \in Literals : i + Len(w) - 1 <= Len(s) /\ SubSeq(s, i, i + Len(w) - 1) = w}
    IN  IF hits = {} THEN PFail
        ELSE LET w == CHOOSE x \in hits : TRUE IN POk(<<"lit", w>>, i + Len(w))

\* an object's members as a set of <<key, value>>; a repeated key keeps its
\* last value
ObjValue(pairs) ==
    {pairs[n] : n \in {m \in 1..Len(pairs) :
                          \A m2 \in (m + 1)..Len(pairs) : pairs[m2][1] # pairs[m][1]}}

RECURSIVE ParseValue(_, _)
RECURSIVE ElementsTail(_, _, _)
RECURSIVE MembersTail(_, _, _)

\* the elements of an array from index i, after "[" or ","
ElementsTail(s, i, acc) ==
    LET r == ParseValue(s, i)
    IN  IF ~r.ok THEN PFail
        ELSE LET j == SkipWs(s, r.next)
             IN  IF At(s, j) = "," THEN ElementsTail(s, j + 1, Append(acc, r.val))
                 ELSE IF At(s, j) = "]" THEN POk(<<"arr", Append(acc, r.val)>>, j + 1)
                 ELSE PFail

\* the members of an object from index i, after "{" or ","
MembersTail(s, i, acc) ==
    LET j == SkipWs(s, i)
    IN  IF At(s, j) # QT THEN PFail
        ELSE LET k == StringTail(s, j + 1, <<>>)
             IN  IF ~k.ok THEN PFail
                 ELSE LET c == SkipWs(s, k.next)
                      IN  IF At(s, c) # ":" THEN PFail
                          ELSE LET v == ParseValue(s, c + 1)
                               IN  IF ~v.ok THEN PFail
                                   ELSE LET e == SkipWs(s, v.next)
                                            all == Append(acc, <<k.val[2], v.val>>)
                                        IN  IF At(s, e) = "," THEN MembersTail(s, e + 1, all)
                                            ELSE IF At(s, e) = "}"
                                                 THEN POk(<<"obj", ObjValue(all)>>, e + 1)
                                            ELSE PFail

ParseValue(s, i) ==
    LET j == SkipWs(s, i)
        c == At(s, j)
    IN  CASE c = "{" -> IF At(s, SkipWs(s, j + 1)) = "}"
                        THEN POk(<<"obj", {}>>, SkipWs(s, j + 1) + 1)
                        ELSE MembersTail(s, j + 1, <<>>)
          [] c = "[" -> IF At(s, SkipWs(s, j + 1)) = "]"
                        THEN POk(<<"arr", <<>>>>, SkipWs(s, j + 1) + 1)
                        ELSE ElementsTail(s, j + 1, <<>>)
          [] c = QT -> StringTail(s, j + 1, <<>>)
          [] c \in Digits \cup {"-"} -> NumberAt(s, j)
          [] c \in {"t", "f", "n"} -> LiteralAt(s, j)
          [] OTHER -> PFail

\* JSON.parse: ok is FALSE where it throws
JsonParse(s) ==
    LET r == ParseValue(s, 1)
    IN  IF r.ok /\ SkipWs(s, r.next) > Len(s)
        THEN [ok |-> TRUE, val |-> r.val]
        ELSE [ok |-> FALSE, val |-> <<>>]

IsJsonObject(s) == JsonParse(s).ok /\ JsonParse(s).val[1] = "obj"

\* Object.keys(JSON.parse(s))
ObjectKeys(s) == {m[1] : m \in JsonParse(s).val[2]}

----------------------------------------------------------------------------
(* JSON extraction and repair: balanceJson, extractAndRepairJson *)

\* String.prototype.indexOf / lastIndexOf for one character, 1-based; 0 is -1
IndexOf(s, c) ==
    IF \E i \in 1..Len(s) : s[i] = c
    THEN CHOOSE i \in 1..Len(s) : s[i] = c /\ \A j \in 1..(i - 1) : s[j] # c
    ELSE 0

LastIndexOf(s, c) ==
    IF \E i \in 1..Len(s) : s[i] = c
    THEN CHOOSE i \in 1..Len(s) : s[i] = c /\ \A j \in (i + 1)..Len(s) : s[j] # c
    ELSE 0

RECURSIVE TrimEnd(_)
TrimEnd(s) ==
    IF Len(s) > 0 /\ IsWs(s[Len(s)]) THEN TrimEnd(SubSeq(s, 1, Len(s) - 1)) ELSE s

TrimStart(s) == SubSeq(s, SkipWs(s, 1), Len(s))

\* String.prototype.trim
TrimWs(s) == TrimEnd(TrimStart(s))

\* the i flag of the first pattern
Lower(c) ==
    CASE c = "J" -> "j"
      [] c = "S" -> "s"
      [] c = "O" -> "o"
      [] c = "N" -> "n"
      [] OTHER -> c

HasPrefix(s, p) ==
    /\ Len(s) >= Len(p)
    /\ \A i \in 1..Len(p) : Lower(s[i]) = p[i]

\* .replace(/^```json\s*/i, '')
StripFenceJson(s) ==
    IF HasPrefix(s, <<TICK, TICK, TICK, "j", "s", "o", "n">>)
    THEN TrimStart(SubSeq(s, 8, Len(s)))
    ELSE s

\* .replace(/^```\s*/i, '')
StripFenceOpen(s) ==
    IF HasPrefix(s, <<TICK, TICK, TICK>>)
    THEN TrimStart(SubSeq(s, 4, Len(s)))
    ELSE s

\* .replace(/\s*```$/, '')
StripFenceClose(s) ==
    IF Len(s) >= 3 /\ SubSeq(s, Len(s) - 2, Len(s)) = <<TICK, TICK, TICK>>
    THEN TrimEnd(SubSeq(s, 1, Len(s) - 3))
    ELSE s

\* the chain of replaces and the trim that remove a Markdown fence
StripFences(s) == TrimWs(StripFenceClose(StripFenceOpen(StripFenceJson(s))))

RECURSIVE FixTrailingCommasFrom(_, _)
FixTrailingCommasFrom(s, i) ==
    IF i > Len(s) THEN <<>>
    ELSE LET j == SkipWs(s, i + 1)
         IN  IF s[i] = "," /\ At(s, j) \in {"}", "]"}
             THEN SubSeq(s, i + 1, j) \o FixTrailingCommasFrom(s, j + 1)
             ELSE <<s[i]>> \o FixTrailingCommasFrom(s, i + 1)

\* .replace(/,(\s*[}\]])/g, '$1')
FixTrailingCommas(s) == FixTrailingCommasFrom(s, 1)

\* the scanner of balanceJson before the first character; the stack holds the
\* closers still owed, the last one on top
ScanStart == [inString |-> FALSE, isEscaped |-> FALSE, stack |-> <<>>]

Top(stack) == IF stack = <<>> THEN "<empty>" ELSE stack[Len(stack)]

Pop(stack) == SubSeq(stack, 1, Len(stack) - 1)

\* the body of the for loop of balanceJson
ScanChar(st, char) ==
    IF st.inString
    THEN IF char = BS THEN [st EXCEPT !.isEscaped = ~st.isEscaped]
         ELSE IF char = QT /\ ~st.isEscaped THEN [st EXCEPT !.inString = FALSE]
         ELSE [st EXCEPT !.isEscaped = FALSE]
    ELSE IF char = QT THEN [st EXCEPT !.inString = TRUE]
         ELSE IF char = "{" THEN [st EXCEPT !.stack = Append(st.stack, "}")]
         ELSE IF char = "[" THEN [st EXCEPT !.stack = Append(st.stack, "]")]
         ELSE IF char = "}" /\ Top(st.stack) = "}" THEN [st EXCEPT !.stack = Pop(st.stack)]
         ELSE IF char = "]" /\ Top(st.stack) = "]" THEN [st EXCEPT !.stack = Pop(st.stack)]
         ELSE st

RECURSIVE ScanFrom(_, _, _)
ScanFrom(st, s, i) ==
    IF i > Len(s) THEN st ELSE ScanFrom(ScanChar(st, s[i]), s, i + 1)

\* the scanner after the whole text
Scan(s) == ScanFrom(ScanStart, s, 1)

RECURSIVE Reverse(_)
Reverse(q) == IF q = <<>> THEN <<>> ELSE Append(Reverse(Tail(q)), Head(q))

\* balanceJson: a closing quote if the scan ended inside a string, then the
\* owed closers popped off the stack
BalanceJson(jsonStr) ==
    LET st == Scan(jsonStr)
        recovery == (IF st.inString THEN <<QT>> ELSE <<>>) \o Reverse(st.stack)
    IN  jsonStr \o recovery

\* extractAndRepairJson, revision with the balancing step
ExtractAndRepairJson_gs2(str) ==
    IF str = <<>> THEN <<>>
    ELSE LET stripped == StripFences(str)
             firstOpen == IndexOf(stripped, "{")
         IN  IF firstOpen = 0 THEN stripped
             ELSE LET cleanStr == FixTrailingCommas(SubSeq(stripped, firstOpen, Len(stripped)))
                  IN  IF JsonParse(cleanStr).ok THEN cleanStr ELSE BalanceJson(cleanStr)

\* extractAndRepairJson, revision that slices from the first { to the last }
ExtractAndRepairJson_gs3(str) ==
    IF str = <<>> THEN <<>>
    ELSE LET firstOpen == IndexOf(str, "{")
             lastClose == LastIndexOf(str, "}")
             jsonCandidate == IF firstOpen # 0 /\ lastClose # 0 /\ lastClose > firstOpen
                              THEN SubSeq(str, firstOpen, lastClose)
                              ELSE StripFences(str)
         IN  FixTrailingCommas(jsonCandidate)

ExtractAndRepairJson(v, str) ==
    CASE v = "gs2" -> ExtractAndRepairJson_gs2(str)
      [] v = "gs3" -> ExtractAndRepairJson_gs3(str)

----------------------------------------------------------------------------
(* The texts extractAndRepairJson and balanceJson are applied to *)

\* pieces of string content between the quotes: one character, or an escape
MaxUnits == 2
\* length of the texts balanceJson is scanned on
MaxScanLen == 3

StringUnits ==
    {<<"x">>, <<",">>, <<"}">>, <<"]">>, <<" ">>, <<BS, QT>>, <<BS, BS>>}

RECURSIVE Concats(_, _)
\* concatenations of at most n members of U
Concats(U, n) ==
    IF n = 0 THEN {<<>>}
    ELSE LET shorter == Concats(U, n - 1)
         IN  shorter \cup {b \o u : b \in shorter, u \in U}

StringBodies == Concats(StringUnits, MaxUnits)

Str(b) == <<QT>> \o b \o <<QT>>

ScalarTexts == {<<"1">>} \cup {Str(b) : b \in StringBodies}

ValueTexts ==
    ScalarTexts
    \cup {<<"[">> \o v \o <<"]">> : v \in ScalarTexts}
    \cup {<<"[", "1", ",">> \o v \o <<"]">> : v \in ScalarTexts}
    \cup {<<"[", "]">>, <<"{", "}">>, <<"{", QT, "c", QT, ":", "1", "}">>}

Obj1(v) == <<"{", QT, "a", QT, ":">> \o v \o <<"}">>

Obj2(v, w) == <<"{", QT, "a", QT, ":">> \o v \o <<",", QT, "b", QT, ":">> \o w \o <<"}">>

\* syntactically valid JSON objects
ValidObjects ==
    {s \in {Obj1(v) : v \in ValueTexts}
           \cup {Obj2(v, w) : v \in ScalarTexts, w \in {<<"1">>, <<"[", "1", ",", "2", "]">>}}
           \cup {<<"{", "}">>,
                 <<"{", " ", QT, "a", QT, " ", ":", " ", "[", "1", " ", ",", " ", "2", "]", NL, "}">>} :
        IsJsonObject(s)}

\* what a model writes around the object
Leads == {<<>>, <<"o", "k", ":", " ">>}
Trails == {<<>>, <<" ", "o", "k">>, <<NL, "o", "k", ".">>}

CommentedObjects ==
    {Obj1(v) : v \in {<<"1">>, Str(<<"x">>), Str(<<",", "}">>), <<"[", "1", ",", "2", "]">>}}

\* a valid object preceded and/or followed by commentary
CommentaryTexts ==
    {l \o o \o t : l \in Leads, o \in CommentedObjects, t \in Trails} \ CommentedObjects

\* a valid object inside a Markdown fence
FenceOpens ==
    {<<TICK, TICK, TICK, "j", "s", "o", "n", NL>>,
     <<TICK, TICK, TICK, "J", "S", "O", "N", NL>>,
     <<TICK, TICK, TICK, "j", "s", NL>>,
     <<TICK, TICK, TICK, NL>>}

\* the closing fence, alone or with whitespace after it
FenceCloses ==
    {<<NL, TICK, TICK, TICK>>,
     <<NL, TICK, TICK, TICK, NL>>,
     <<NL, TICK, TICK, TICK, " ">>}

FencedTexts ==
    {open \o o \o close :
         open \in FenceOpens, o \in CommentedObjects, close \in FenceCloses}

\* texts that hold no {
NoBraceAlphabet == {"x", ",", "]", "}", " "}

NoBraceTexts ==
    LET plain == SeqsUpTo(NoBraceAlphabet, MaxScanLen)
    IN  plain \cup {<<TICK, TICK, TICK, NL>> \o t \o <<NL, TICK, TICK, TICK>> : t \in plain}

\* the text of the truncation example: {"a":"x, "b":[1,2
TruncationExample ==
    <<"{", QT, "a", QT, ":", QT, "x", ",", " ", QT, "b", QT, ":", "[", "1", ",", "2">>

\* {"a":"x","b":[1," : keys a and b written, an array and a string in it open
TruncationHead ==
    <<"{", QT, "a", QT, ":", QT, "x", QT, ",", QT, "b", QT, ":", "[", "1", ",", QT>>

\* object texts cut off inside a string of an array of the object
TruncatedTexts ==
    {TruncationExample}
    \cup {TruncationHead \o b \o t : b \in StringBodies, t \in {<<>>, <<BS>>}}

ScanAlphabet == {"{", "[", "}", "]", QT, BS, "x"}

\* every text over the scanner's alphabet up to the length followed
ScanTexts == SeqsUpTo(ScanAlphabet, MaxScanLen)

RepairInputs ==
    ValidObjects \cup CommentaryTexts \cup FencedTexts \cup TruncatedTexts \cup ScanTexts
    \cup NoBraceTexts

\* the revisions of extractAndRepairJson:
\*   gs2 = services/geminiService.ts 285-309 (and api/generate.js 197-210)
\*   gs3 = services/geminiService.ts 473-496
RepairVariants == {"gs2", "gs3"}

RepairIdle ==
    /\ rpc = "start"
    /\ rop = "none"
    /\ rout = <<>>

\* the repair functions at rest, as the other components leave them
RepairAtRest ==
    /\ rvariant = "gs2"
    /\ rin = <<>>
    /\ RepairIdle

----------------------------------------------------------------------------
(* Base-URL normalization: parseUrlConfig *)

\* trailing slashes on the URLs followed
MaxSlashes == 3

HTTPS == <<"h", "t", "t", "p", "s", ":", "/", "/">>
HTTP == <<"h", "t", "t", "p">>
V1 == <<"/", "v", "1">>
API == <<"/", "a", "p", "i", "/">>

\* 'https://api.openai.com/v1'
DefaultBaseUrl ==
    HTTPS \o <<"a", "p", "i", ".", "o", "p", "e", "n", "a", "i", ".", "c", "o", "m">> \o V1

\* String.prototype.startsWith / endsWith / includes
StartsWith(s, p) == Len(s) >= Len(p) /\ SubSeq(s, 1, Len(p)) = p

EndsWith(s, p) == Len(s) >= Len(p) /\ SubSeq(s, Len(s) - Len(p) + 1, Len(s)) = p

Includes(s, p) == \E i \in 1..(Len(s) - Len(p) + 1) : SubSeq(s, i, i + Len(p) - 1) = p

\* url.match(/\/v1(\/|$)/)
MatchesV1(url) ==
    \E i \in 1..(Len(url) - 2) :
        /\ SubSeq(url, i, i + 2) = V1
        /\ (i + 3 > Len(url) \/ url[i + 3] = "/")

\* url.replace(/\/$/, '')
DropTrailingSlash(url) ==
    IF EndsWith(url, <<"/">>) THEN SubSeq(url, 1, Len(url) - 1) ELSE url

\* trim, then the scheme test
WithScheme(urlStr) ==
    LET url == TrimWs(urlStr)
    IN  IF ~StartsWith(url, HTTP) THEN HTTPS \o url ELSE url

\* parseUrlConfig(urlStr).baseUrl, services/geminiService.ts 236-245
ParseUrlConfig_gs2(urlStr) ==
    IF urlStr = <<>> THEN DefaultBaseUrl
    ELSE LET url == DropTrailingSlash(WithScheme(urlStr))
         IN  IF ~MatchesV1(url) /\ ~Includes(url, API)
             THEN IF ~EndsWith(url, V1) THEN url \o V1 ELSE url
             ELSE url

\* parseUrlConfig(urlStr).baseUrl, part_003 10-34: one more slash is cut when
\* the version test matched
ParseUrlConfig_p003(urlStr) ==
    IF urlStr = <<>> THEN DefaultBaseUrl
    ELSE LET url == DropTrailingSlash(WithScheme(urlStr))
         IN  IF ~MatchesV1(url) /\ ~Includes(url, API)
             THEN IF ~EndsWith(url, V1) THEN url \o V1 ELSE url
             ELSE IF EndsWith(url, <<"/">>) THEN SubSeq(url, 1, Len(url) - 1)
             ELSE url

UrlVariants == {"gs2", "p003"}

ParseUrlConfig(v, urlStr) ==
    CASE v = "gs2" -> ParseUrlConfig_gs2(urlStr)
      [] v = "p003" -> ParseUrlConfig_p003(urlStr)

UrlSchemes == {<<>>, HTTP \o <<":", "/", "/">>, HTTPS}

\* host names, one of them beginning with the letters http
UrlHosts == {<<"x", ".", "i", "o">>, <<"h", "t", "t", "p", "x", ".", "i", "o">>}

UrlPaths ==
    {<<>>, V1, V1 \o <<"b", "e", "t", "a">>, V1 \o <<"/", "x">>,
     <<"/", "a", "p", "i">>, API \o <<"x">>, <<"/", "x">>}

Slashes(n) == [i \in 1..n |-> "/"]

UrlPads == {<<>>, <<" ">>}

\* the base URLs a user may have saved; <<>> is an unset one
UrlInputs ==
    {<<>>}
    \cup {pad \o scheme \o host \o path \o Slashes(n) \o pad :
             pad \in UrlPads, scheme \in UrlSchemes, host \in UrlHosts,
             path \in UrlPaths, n \in 0..MaxSlashes}

UrlIdle ==
    /\ upc = "start"
    /\ uout = <<>>
    /\ uout2 = <<>>

\* parseUrlConfig at rest, as the other components leave it
UrlAtRest ==
    /\ uvariant = "gs2"
    /\ uin = <<>>
    /\ UrlIdle

----------------------------------------------------------------------------
(* The handlers that post to the email relay: api/send-email.js, api/cron.js *)

\* The revisions:
\*   se1   = api/send-email.js 3-77
\*   se2   = api/send-email.js 81-155
\*   se3   = api/send-email.js 158-217
\*   cron1 = api/cron.js 5-137
MailVariants == {"se1", "se2", "se3", "cron1"}

\* 'Aurora News <onboarding@resend.dev>'
DefaultFrom ==
    <<"A", "u", "r", "o", "r", "a", " ", "N", "e", "w", "s", " ", "<", "o",
    "n", "b", "o", "a", "r", "d", "i", "n", "g", "@", "r", "e", "s", "e", "n",
    "d", ".", "d", "e", "v", ">">>

\* values of process.env.EMAIL_FROM; <<>> is an unset one
EnvFroms ==
    {<<>>,
     <<"a", "@", "b", ".", "i", "o">>,
     <<"A", " ", "<", "a", "@", "b", ".", "i", "o", ">">>,
     <<"A", " ", "a", "@", "b", ".", "i", "o">>,
     <<"n", "o", "r", "e", "p", "l", "y">>,
     <<"A", " ", "n", "o", "r", "e", "p", "l", "y">>,
     <<QT, "a", "@", "b", ".", "i", "o", QT>>,
     <<" ", "a", "@", "b", " ">>}

\* .replace(/['"]/g, '')
RECURSIVE RemoveQuotes(_)
RemoveQuotes(s) ==
    IF s = <<>> THEN <<>>
    ELSE IF Head(s) \in {"'", QT} THEN RemoveQuotes(Tail(s))
    ELSE <<Head(s)>> \o RemoveQuotes(Tail(s))

\* process.env.EMAIL_FROM || 'Aurora News <onboarding@resend.dev>'
FromOrDefault(env) == IF env = <<>> THEN DefaultFrom ELSE env

\* send-email.js 25-32
From_se1(env) ==
    LET fromEmail == TrimWs(RemoveQuotes(FromOrDefault(env)))
    IN  IF ~Includes(fromEmail, <<"@">>) \/ ~Includes(fromEmail, <<".">>)
        THEN DefaultFrom
        ELSE fromEmail

\* parts = s.split(' '); emailPart = parts.pop(); `${parts.join(' ')} <${emailPart}>`
BracketLastWord(s) ==
    LET sp == LastIndexOf(s, " ")
    IN  SubSeq(s, 1, sp - 1) \o <<" ", "<">> \o SubSeq(s, sp + 1, Len(s)) \o <<">">>

\* send-email.js 100-112
From_se2(env) ==
    LET raw == TrimWs(RemoveQuotes(FromOrDefault(env)))
        fixed == IF ~Includes(raw, <<"<">>) /\ Includes(raw, <<" ">>)
                 THEN BracketLastWord(raw)
                 ELSE raw
    IN  IF ~Includes(fixed, <<"@">>) THEN DefaultFrom ELSE fixed

\* send-email.js 178 and cron.js 11
From_se3(env) == FromOrDefault(env)

\* the from address of the request to the relay
FromAddress(v, env) ==
    CASE v = "se1" -> From_se1(env)
      [] v = "se2" -> From_se2(env)
      [] v = "se3" -> From_se3(env)
      [] v = "cron1" -> From_se3(env)

\* what the relay answers to POST /emails: a 2xx answer, an error status with
\* a body, or no answer at all (fetch rejects). A body is its raw text, whether
\* JSON.parse accepts it, whether it parses to null, and the message field of
\* the parsed object ("" when it has none)
RelayBodies ==
    {[raw |-> "{\"message\":\"Invalid from\"}", json |-> TRUE, isNull |-> FALSE,
      message |-> "Invalid from"],
     [raw |-> "{\"name\":\"validation_error\"}", json |-> TRUE, isNull |-> FALSE,
      message |-> ""],
     [raw |-> "null", json |-> TRUE, isNull |-> TRUE, message |-> ""],
     [raw |-> "Bad Gateway", json |-> FALSE, isNull |-> FALSE, message |-> ""]}

NoBody == [raw |-> "", json |-> FALSE, isNull |-> FALSE, message |-> ""]

RelayErrorStatuses == {422, 502}

RelayAnswers ==
    {[kind |-> "ok", status |-> 200, body |-> NoBody],
     [kind |-> "rejected", status |-> 0, body |-> NoBody]}
    \cup {[kind |-> "error", status |-> st, body |-> b] :
              st \in RelayErrorStatuses, b \in RelayBodies}

NoRelayAnswer == [kind |-> "none", status |-> 0, body |-> NoBody]

\* what the handler answers: a status and the error text of its JSON body, as
\* the pieces the text is put together from (<<>> when there is no error field)
Answer(st, err) == [status |-> st, error |-> err]

NoAnswer == Answer(0, <<>>)

\* send-email.js 59-76: both throws happen inside the inner try, so the inner
\* catch replaces the first by the second
OnRelayError_se1(a) == Answer(500, <<"Resend API rejected: ", a.body.raw>>)

\* send-email.js 139-147
OnRelayError_se2(a) ==
    IF a.body.json /\ ~a.body.isNull /\ a.body.message # ""
    THEN Answer(a.status, <<a.body.message>>)
    ELSE Answer(a.status, <<a.body.raw>>)

\* send-email.js 205-216
OnRelayError_se3(a) == Answer(500, <<"Resend API rejected: ", a.body.raw>>)

\* cron.js 128-136
OnRelayError_cron1(a) == Answer(500, <<a.body.raw>>)

OnRelayError(v, a) ==
    CASE v = "se1" -> OnRelayError_se1(a)
      [] v = "se2" -> OnRelayError_se2(a)
      [] v = "se3" -> OnRelayError_se3(a)
      [] v = "cron1" -> OnRelayError_cron1(a)

MailIdle ==
    /\ mpc = "start"
    /\ postedFrom = <<>>
    /\ relayAnswer = NoRelayAnswer
    /\ mailAnswer = NoAnswer

\* the handlers at rest, as the other components leave them
MailAtRest ==
    /\ mvariant = "se1"
    /\ envFrom = <<>>
    /\ envResendKey = TRUE
    /\ MailIdle

----------------------------------------------------------------------------
(* The /api/generate handler: resolution of key, base URL and model *)

\* The revisions of the handler: api/generate.js 161-330 and part_004 3-126
HandlerVariants == {"generate", "p004"}

\* request.method
Methods == {"OPTIONS", "GET", "POST", "PUT"}

\* The percent escapes that the header values below use, and what
\* decodeURIComponent makes of each.
PercentDecoded(a, b) ==
    IF <<a, b>> = <<"2", "0">> THEN " "
    ELSE IF <<a, b>> = <<"2", "2">> THEN QT
    ELSE IF <<a, b>> = <<"2", "7">> THEN "'"
    ELSE "%"

\* decodeURIComponent throws on a '%' that no escape follows
RECURSIVE WellEscaped(_)
WellEscaped(s) ==
    IF s = <<>> THEN TRUE
    ELSE IF Head(s) = "%"
         THEN /\ Len(s) >= 3
              /\ <<s[2], s[3]>> \in {<<"2", "0">>, <<"2", "2">>, <<"2", "7">>, <<"2", "5">>}
              /\ WellEscaped(SubSeq(s, 4, Len(s)))
         ELSE WellEscaped(Tail(s))

RECURSIVE DecodeURIComponent(_)
DecodeURIComponent(s) ==
    IF s = <<>> THEN <<>>
    ELSE IF Head(s) = "%"
         THEN <<PercentDecoded(s[2], s[3])>> \o DecodeURIComponent(SubSeq(s, 4, Len(s)))
         ELSE <<Head(s)>> \o DecodeURIComponent(Tail(s))

\* getHeader(key), api/generate.js 212-216; <<>> stands for a header that is
\* not sent (undefined) as well as for an empty one: both are falsy.
GetHeader(val) ==
    IF val = <<>> THEN <<>>
    ELSE IF WellEscaped(val) THEN DecodeURIComponent(val) ELSE val

\* a || b on strings
OrElse(a, b) == IF a # <<>> THEN a ELSE b

\* .replace(/^['"]|['"]$/g, '')
StripQuoteEnds(s) ==
    LET a == IF s # <<>> /\ Head(s) \in {QT, "'"} THEN Tail(s) ELSE s
    IN  IF a # <<>> /\ a[Len(a)] \in {QT, "'"} THEN SubSeq(a, 1, Len(a) - 1) ELSE a

\* faulty variation: a built-in key stands in for a missing one
ResolveApiKey_builtIn(customApiKey, envKey) == OrElse(customApiKey, OrElse(envKey, <<"k">>))

\* faulty variation: the environment's key wins over the header's
ResolveApiKey_envFirst(customApiKey, envKey) == OrElse(envKey, customApiKey)

\* let apiKey = customApiKey || process.env.API_KEY  (line 222)
ResolveApiKey(customApiKey, envKey) == OrElse(customApiKey, envKey)

\* apiKey.trim().replace(/^['"]|['"]$/g, '')  (line 224)
CleanApiKey(k) == StripQuoteEnds(TrimWs(k))

Azure == <<"o", "p", "e", "n", "a", "i", ".", "a", "z", "u", "r", "e", ".", "c", "o", "m">>

\* lines 226-230
ResolveBaseUrl(customBaseUrl) ==
    LET baseUrl == DropTrailingSlash(OrElse(customBaseUrl, DefaultBaseUrl))
    IN  IF ~EndsWith(baseUrl, V1) /\ ~Includes(baseUrl, Azure)
        THEN baseUrl \o V1 ELSE baseUrl

Gemini15Pro == <<"gemini-1.5-pro">>
Gpt4oMini == <<"gpt-4o-mini">>

\* const primaryModel = customModel || process.env.GEMINI_MODEL_ID || 'gemini-1.5-pro'
PrimaryModel(customModel, envModel) == OrElse(customModel, OrElse(envModel, Gemini15Pro))

\* const fallbackModel = 'gpt-4o-mini'
FallbackModel == Gpt4oMini

\* The x-custom-api-key header as the client sends it
HeaderKeys ==
    {<<>>, <<"h">>, <<"%", "2", "0", "h">>, <<"%", "2", "7", "h", "%", "2", "7">>, <<"%">>,
     <<"%", "2", "0">>}

\* process.env.API_KEY
EnvKeys == {<<>>, <<"e">>, <<QT, "e", QT>>}

\* The x-custom-base-url header
HeaderBaseUrls ==
    {<<>>, HTTPS \o <<"x", ".", "i", "o", "/">>, HTTPS \o <<"x", ".", "i", "o">> \o V1}

\* The x-custom-model header
HeaderModels == {<<>>, <<"m">>, <<"m", "%", "2", "0", "x">>, Gpt4oMini}

\* process.env.GEMINI_MODEL_ID
EnvModels == {<<>>, <<"g">>}

\* How a call to the provider ends: fetch of <baseUrl>/models, or
\* client.chat.completions.create
ListingEnds == {"ok", "r429", "html", "notOk", "throws"}
CompletionEnds == {"ok", "r429", "r400", "other"}

UpstreamStatus == 503
NotAnswered == 0

HandlerIdle ==
    /\ hpc = "start"
    /\ reqListAction = FALSE
    /\ reqHasDate = FALSE
    /\ hEnds = <<>>
    /\ keyUsed = <<>>
    /\ baseUrlUsed = <<>>
    /\ modelsCalled = <<>>
    /\ hLevel = 0
    /\ hAnswer = NotAnswered

HandlerAtRest ==
    /\ hVariant = "generate"
    /\ reqMethod = "OPTIONS"
    /\ reqKey = <<>>
    /\ reqBaseUrl = <<>>
    /\ reqModel = <<>>
    /\ envApiKey = <<>>
    /\ envModelId = <<>>
    /\ HandlerIdle

----------------------------------------------------------------------------
(* The email body: generateHtml of the cron handler (api/cron.js 233-258) *)

\* longest array of a payload
MaxItems == 2

\* The keys of the payload that hold arrays; a payload records in `missing'
\* the ones it does not have (undefined).
ArrayKeys == {"viral_titles", "medical_viral_titles", "general_news", "medical_news"}

\* what the call left behind when it threw a TypeError
Threw == <<"TypeError">>

\* items.join(sep), for items that are pieces of HTML
RECURSIVE Join(_, _)
Join(items, sep) ==
    IF items = <<>> THEN <<>>
    ELSE IF Len(items) = 1 THEN <<items[1]>>
    ELSE <<items[1], sep>> \o Join(Tail(items), sep)

\* one item of listItems, lines 235-240
ItemHtml(item) ==
    <<"<div><div><a href=", item.source_url, ">", item.title_cn, "</a></div><div>",
      item.title_en, "</div><div>", item.summary_cn, "</div></div>">>

\* listItems(items, color): items.map(...).join('')
RECURSIVE ListItems(_)
ListItems(items) ==
    IF items = <<>> THEN <<>> ELSE ItemHtml(Head(items)) \o ListItems(Tail(items))

\* The fixed pieces of the template, lines 243-257
H1 == "<h1>Aurora Daily Briefing - "
ViralBox == "</h1><div><b>Global Viral:</b><br/>"
HealthBox == "</div><div><b>Health Viral:</b><br/>"
GlobalHead == "</div><h3>Global News</h3>"
MedicalHead == "<h3>Medical News</h3>"
BR == "<br/>"

\* generateHtml(data), lines 234-258.  Reading .join or .map of a missing
\* array throws; only medical_viral_titles is tested first.
GenerateHtml(content) ==
    IF content.missing \cap {"viral_titles", "general_news", "medical_news"} # {}
    THEN Threw
    ELSE <<H1, content.date, ViralBox>>
            \o Join(content.viral_titles, BR)
            \o <<HealthBox>>
            \o (IF "medical_viral_titles" \notin content.missing
                THEN Join(content.medical_viral_titles, BR) ELSE <<>>)
            \o <<GlobalHead>>
            \o ListItems(content.general_news)
            \o <<MedicalHead>>
            \o ListItems(content.medical_news)

NewsItem(n) ==
    [title_cn |-> "cn" \o n, title_en |-> "en" \o n,
     summary_cn |-> "sum" \o n, source_url |-> "https://src/" \o n]

\* The payloads that JSON.parse hands to generateHtml
Contents ==
    {c \in [date : {"2024-05-01"},
            missing : {{}} \cup {{k} : k \in ArrayKeys},
            viral_titles : SeqsUpTo({"v1", "v2"}, MaxItems),
            medical_viral_titles : SeqsUpTo({"w1"}, 1),
            general_news : SeqsUpTo({NewsItem("1"), NewsItem("2")}, MaxItems),
            medical_news : SeqsUpTo({NewsItem("3")}, 1)] :
        \A k \in c.missing : c[k] = <<>>}

NoContent ==
    [date |-> "", missing |-> {}, viral_titles |-> <<>>, medical_viral_titles |-> <<>>,
     general_news |-> <<>>, medical_news |-> <<>>]

RenderAtRest ==
    /\ payload = NoContent
    /\ html = <<>>
    /\ rendered = FALSE

----------------------------------------------------------------------------
(* The UI session of the revision with a cooldown: App (App.tsx 468-558) *)

\* setCooldown(30)
CooldownSeconds == 30

\* Which revision of App a session of the guard-release specification runs
AppRevisions == {"part_008", "App.tsx"}

\* how await generateBriefing ends for handleGenerate's catch block
BriefingEnds == {"ok", "rateLimit", "error"}

\* useState initial values, App.tsx 469-476
TsxConstructed ==
    /\ tsxMounted = FALSE
    /\ tsxStatus = "IDLE"
    /\ tsxData = "null"
    /\ tsxCycles = [k \in CycleIds |-> FALSE]
    /\ tsxConnChecks = 0
    /\ cooldown = 0
    /\ tsxLastEnd = "none"

TsxAtRest ==
    /\ appRevision = "part_008"
    /\ TsxConstructed

----------------------------------------------------------------------------
(* The cron handler: generate, render, send (api/cron.js 5-137, 143-285) *)

CronVariants == {"cron1", "cron2"}

\* values of process.env.API_KEY and RESEND_API_KEY; <<>> is an unset one
CronKeys == {<<>>, <<"k">>, <<QT, QT>>}
CronResendKeys == {<<>>, <<"r">>}

\* values of process.env.RECIPIENT_LIST
RecipientLists == {<<>>, <<"a", "@", "b">>, <<" ">>, <<"a", "@", "b", ",", " ">>}

\* str.split(',')
RECURSIVE SplitComma(_)
SplitComma(s) ==
    LET i == IndexOf(s, ",")
    IN  IF i = 0 THEN <<s>>
        ELSE <<SubSeq(s, 1, i - 1)>> \o SplitComma(SubSeq(s, i + 1, Len(s)))

\* recipientsEnv ? recipientsEnv.split(',').map(e => e.trim()) : [],
\* with .filter(e => e) in the later revision (lines 14 and 155)
Recipients(v, recipientsEnv) ==
    IF recipientsEnv = <<>> THEN <<>>
    ELSE LET parts == SplitComma(recipientsEnv)
             trimmed == [i \in 1..Len(parts) |-> TrimWs(parts[i])]
             NonBlank(e) == e # <<>>
         IN  IF v = "cron2" THEN SelectSeq(trimmed, NonBlank) ELSE trimmed

\* the API key and the relay key as the configuration test sees them:
\* raw at line 16, with quotes removed and trimmed at lines 146-148
KeySeen(v, k) == IF v = "cron2" THEN TrimWs(RemoveQuotes(k)) ELSE k

\* if (!apiKey || !resendApiKey || recipients.length === 0), lines 16 and 157
ConfigurationMissing(v, apiKeyEnv, resendEnv, recipientsEnv) ==
    \/ KeySeen(v, apiKeyEnv) = <<>>
    \/ KeySeen(v, resendEnv) = <<>>
    \/ Recipients(v, recipientsEnv) = <<>>

FullContentText ==
    <<"{", QT, "v", "i", "r", "a", "l", "_", "t", "i", "t", "l", "e", "s", QT,
    ":", "[", "]", ",", QT, "g", "e", "n", "e", "r", "a", "l", "_", "n", "e",
    "w", "s", QT, ":", "[", "]", ",", QT, "m", "e", "d", "i", "c", "a", "l",
    "_", "n", "e", "w", "s", QT, ":", "[", "]", "}">>

\* the texts a completion carries as choices[0].message.content
CronTexts ==
    {FullContentText,
     <<TICK, TICK, TICK, "j", "s", "o", "n", NL>> \o FullContentText \o <<NL, TICK, TICK, TICK>>,
     <<"{", QT, "v", "i", "r", "a", "l", "_", "t", "i", "t", "l", "e", "s",
     QT, ":", "[", "]", ",", "}">>,
     <<"n", "u", "l", "l">>,
     <<"S", "o", "r", "r", "y">>,
     <<>>}

\* how client.chat.completions.create ends
Completions ==
    {[kind |-> "throws", finish |-> "", text |-> <<>>],
     [kind |-> "noChoices", finish |-> "", text |-> <<>>]}
      \cup [kind : {"choice"}, finish : {"stop", "content_filter"}, text : CronTexts]

NoCompletion == [kind |-> "none", finish |-> "", text |-> <<>>]

\* the text handed to JSON.parse: the content itself at line 80,
\* extractAndRepairJson(content) at lines 230-231
TextToParse(v, text) == IF v = "cron2" THEN ExtractAndRepairJson_gs3(text) ELSE text

\* obj[key] of a parsed object, <<"undefined">> without the key
Field(val, key) ==
    IF \E m \in val[2] : m[1] = key
    THEN (CHOOSE m \in val[2] : m[1] = key)[2]
    ELSE <<"undefined">>

\* generateHtml(content) returns: data is an object whose viral_titles,
\* general_news and medical_news are arrays of strings / of objects;
\* otherwise reading a property or calling .join / .map throws
GenerateHtmlReturns(val) ==
    /\ val[1] = "obj"
    /\ Field(val, <<"v", "i", "r", "a", "l", "_", "t", "i", "t", "l", "e", "s">>)[1] = "arr"
    /\ \A key \in {<<"g", "e", "n", "e", "r", "a", "l", "_", "n", "e", "w", "s">>, <<"m", "e", "d", "i", "c", "a", "l", "_", "n", "e", "w", "s">>} :
          /\ Field(val, key)[1] = "arr"
          /\ \A i \in 1..Len(Field(val, key)[2]) :
                LET item == Field(val, key)[2][i]
                IN  IF item[1] = "lit" THEN item[2] # <<"n", "u", "l", "l">> ELSE TRUE

\* how the fetch of https://api.resend.com/emails ends
RelayEnds == {"ok", "notOk", "throws"}

CronIdle ==
    /\ cronPc = "start"
    /\ cronCalls = <<>>
    /\ cronCompletion = NoCompletion
    /\ cronRelayEnd = "none"
    /\ cronStatus = NotAnswered

CronAtRest ==
    /\ cronVariant = "cron1"
    /\ cronApiKey = <<>>
    /\ cronResendKey = <<>>
    /\ cronRecipientList = <<>>
    /\ CronIdle

----------------------------------------------------------------------------
(* Sending the briefing from the UI: executeEmailSend (part_008 177-200, App.tsx 121-150) *)

\* sendEmail calls in flight that the model follows
MaxSends == 2

SenderVariants == {"p008", "app1"}

\* what a recipient field can hold
FieldTexts == {<<>>, <<" ">>, <<"a", "@", "b">>}

\* const activeEmails = emails.filter(e => e.trim() !== '')
ActiveEmails(fields) ==
    LET NonBlank(e) == TrimWs(e) # <<>>
    IN  SelectSeq(fields, NonBlank)

\* does executeEmailSend(content, isAuto) get to sendEmail: the test of the
\* recipients in both revisions, the test of the content in part_008 only
Dispatches(v, content, fields) ==
    /\ ActiveEmails(fields) # <<>>
    /\ v = "p008" => content # "null"

\* the send button / test button is rendered enabled:
\* disabled={isSendingEmail || !data} (part_008 355), disabled={isSendingEmail}
\* (App.tsx 274)
SenderButtonEnabled(v) ==
    IF v = "p008" THEN ~(sSending \/ sData = "null") ELSE ~sSending

\* useState initial values
SenderConstructed ==
    /\ sMounted = FALSE
    /\ sStatus = "IDLE"
    /\ sData = "null"
    /\ sEmails = <<<<>>, <<>>>>
    /\ sSending = FALSE
    /\ sCycle = "none"
    /\ sRanToday = FALSE
    /\ sInFlight = 0
    /\ sDispatched = {}

SenderAtRest ==
    /\ sVariant = "p008"
    /\ SenderConstructed

----------------------------------------------------------------------------
(* The stability-priority strategy: model names and the calls *)

\* The revisions: part_001 72-150 (generateBriefing) and part_006 133-180
\* (the handler's generation)
StrategyVariants == {"p001", "p006"}

Gemini3 == <<"g", "e", "m", "i", "n", "i", "-", "3">>
Gemini25 == <<"g", "e", "m", "i", "n", "i", "-", "2", ".", "5">>

\* 'gemini-3-pro-preview', the default of PRIMARY_MODEL
Gemini3ProPreview == Gemini3 \o <<"-", "p", "r", "o", "-", "p", "r", "e", "v", "i", "e", "w">>

\* 'gemini-3-flash-preview', the default of FALLBACK_MODEL
Gemini3FlashPreview == Gemini3 \o <<"-", "f", "l", "a", "s", "h", "-", "p", "r", "e", "v", "i", "e", "w">>

\* process.env.GEMINI_MODEL_ID (in part_006 also the x-custom-model header)
\* || 'gemini-3-pro-preview'
PrimaryModels ==
    {Gemini3ProPreview, Gemini25 \o <<"-", "p", "r", "o">>, <<"g", "p", "t", "-", "4", "o">>, <<"[", "c", "]", "/", "m">>, Gemini3FlashPreview}

\* process.env.GEMINI_FALLBACK_MODEL_ID || 'gemini-3-flash-preview'
FallbackModels == {Gemini3FlashPreview, <<"g", "p", "t", "-", "4", "o">>}

\* the characters that /[^a-zA-Z0-9.\-_]/ does not match, among those of
\* the names above
NameChars ==
    {"a", "c", "e", "f", "g", "h", "i", "l", "m", "n", "o", "p", "r", "s", "t", "v", "w"}
        \cup Digits \cup {".", "-", "_"}

\* encodeURIComponent of one character
PercentEncoded(c) ==
    IF c \in NameChars THEN <<c>>
    ELSE IF c = "[" THEN <<"%", "5", "B">>
    ELSE IF c = "]" THEN <<"%", "5", "D">>
    ELSE IF c = "/" THEN <<"%", "2", "F">>
    ELSE <<"%", "2", "0">>

RECURSIVE EncodeURIComponent(_)
EncodeURIComponent(s) ==
    IF s = <<>> THEN <<>> ELSE PercentEncoded(Head(s)) \o EncodeURIComponent(Tail(s))

\* sanitizeModelName(name), part_006 63-71
SanitizeModelName(name) ==
    IF name = <<>> THEN name
    ELSE IF \E i \in DOMAIN name : name[i] \notin NameChars
         THEN EncodeURIComponent(name) ELSE name

\* the model field of the request: part_006 136 sanitizes, part_001 111 does not
ModelSent(v, modelName) == IF v = "p006" THEN SanitizeModelName(modelName) ELSE modelName

\* const isGeminiNative = PRIMARY_MODEL.includes('gemini-3') ||
\* PRIMARY_MODEL.includes('gemini-2.5')
IsGeminiNative(primary) == Includes(primary, Gemini3) \/ Includes(primary, Gemini25)

\* One call of executeGeneration(model, useThinking, retryCount) from the
\* try block number stage of the strategy (1: line 138, 2: line 143,
\* 3: line 147)
Generation(v, stage, modelName, useThinking, retries) ==
    [stage |-> stage, modelName |-> modelName, model |-> ModelSent(v, modelName),
     thinking |-> useThinking, retryCount |-> retries]

\* return executeGeneration(model, false, retryCount - 1), part_001 126
RetryOf(v, call) ==
    Generation(v, call.stage, call.modelName, FALSE, call.retryCount - 1)

\* faulty variation: the second try block asks for thinking again
StrategyCatch_thinkingAgain(v, stage, primary, fallback) ==
    IF stage = 1 THEN Generation(v, 2, primary, IsGeminiNative(primary), 1)
    ELSE Generation(v, 3, fallback, FALSE, 1)

\* the call of the catch block that a failure of try block number stage
\* reaches: executeGeneration(PRIMARY_MODEL, false, 1) at line 143,
\* executeGeneration(FALLBACK_MODEL, false, 1) at line 147
StrategyCatch(v, stage, primary, fallback) ==
    IF stage = 1 THEN Generation(v, 2, primary, FALSE, 1)
    ELSE Generation(v, 3, fallback, FALSE, 1)

StratIdle ==
    /\ spPc = "idle"
    /\ spCalls = <<>>
    /\ spEnds = <<>>

StratAtRest ==
    /\ spVariant = "p001"
    /\ spPrimary = Gemini3ProPreview
    /\ spFallback = Gemini3FlashPreview
    /\ StratIdle

----------------------------------------------------------------------------
(* One generateBriefing call as a state machine *)

CallRec(m, r, w) == [model |-> m, level |-> r, waited |-> w]

\* how a resolved call is remembered: a parsed object that the field check
\* rejected is a "missingFields" failure
OutcomeKind(o, t) == IF o.kind = "json" /\ ~t.ok THEN "missingFields" ELSE o.kind

\* the pipeline before generateBriefing is called
GenIdle ==
    /\ gpc = "idle"
    /\ mId = ""
    /\ retryCount = 0
    /\ waitTime = 0
    /\ calls = <<>>
    /\ outcomes = <<>>
    /\ result = NoPayload
    /\ thrownMsg = ""
    /\ inFlight = 0
    /\ failMsgs = <<>>

InitGen ==
    /\ variant \in Variants
    /\ userModelId \in ModelIds
    /\ apiKey \in {"", "sk-key"}
    /\ AppConstructed
    /\ ProbeAtRest
    /\ RepairAtRest
    /\ gpc = "idle"
    /\ mId = ""
    /\ retryCount = 0
    /\ waitTime = 0
    /\ calls = <<>>
    /\ outcomes = <<>>
    /\ result = NoPayload
    /\ thrownMsg = ""
    /\ inFlight = 0
    /\ failMsgs = <<>>
    /\ UrlAtRest
    /\ MailAtRest
    /\ HandlerAtRest
    /\ RenderAtRest
    /\ TsxAtRest
    /\ CronAtRest
    /\ SenderAtRest
    /\ StratAtRest

\* generateBriefing: const apiKey = config?.apiKey || ''; new OpenAI({apiKey});
\* return await attempt(userModelId)
GenerateBriefing ==
    /\ gpc = "idle"
    /\ gpc' = "calling"
    /\ mId' = userModelId
    /\ retryCount' = 0
    /\ calls' = <<CallRec(userModelId, 0, 0)>>
    /\ inFlight' = inFlight + 1
    /\ UNCHANGED <<variant, userModelId, waitTime, outcomes, result, thrownMsg,
                   failMsgs, apiKey>>
    /\ UNCHANGED nonGenVars

\* the provider call of attempt(mId, retryCount) resolves with outcome o and
\* the rest of attempt runs up to its next await
AttemptResolves(o) ==
    /\ gpc = "calling"
    /\ LET t == TryBlock(variant, o)
           c == CatchBlock(variant, mId, retryCount, t.err)
       IN  /\ outcomes' = Append(outcomes, OutcomeKind(o, t))
           /\ failMsgs' = IF t.ok THEN failMsgs ELSE Append(failMsgs, t.err.msg)
           /\ IF t.ok
              THEN /\ gpc' = "returned"
                   /\ result' = t.payload
                   /\ inFlight' = inFlight - 1
                   /\ UNCHANGED <<mId, retryCount, waitTime, calls, thrownMsg>>
              ELSE CASE c.kind = "retry" ->
                          /\ gpc' = "backoff"
                          /\ waitTime' = c.wait
                          /\ inFlight' = inFlight - 1
                          /\ UNCHANGED <<mId, retryCount, calls, result, thrownMsg>>
                     [] c.kind = "call" ->
                          /\ gpc' = "calling"
                          /\ mId' = c.model
                          /\ retryCount' = c.level
                          /\ calls' = Append(calls, CallRec(c.model, c.level, 0))
                          /\ inFlight' = inFlight
                          /\ UNCHANGED <<waitTime, result, thrownMsg>>
                     [] OTHER ->
                          /\ gpc' = "thrown"
                          /\ thrownMsg' = c.msg
                          /\ inFlight' = inFlight - 1
                          /\ UNCHANGED <<mId, retryCount, waitTime, calls, result>>
    /\ UNCHANGED <<variant, userModelId, apiKey>>
    /\ UNCHANGED nonGenVars

\* faulty variation: the retry does not wait for the call in flight
BackoffElapsed_early ==
    /\ gpc \in {"backoff", "calling"}
    /\ retryCount < RetryCeiling
    /\ gpc' = "calling"
    /\ retryCount' = retryCount + 1
    /\ calls' = Append(calls, CallRec(mId, retryCount + 1, waitTime))
    /\ waitTime' = 0
    /\ inFlight' = inFlight + 1
    /\ UNCHANGED <<variant, userModelId, mId, outcomes, result, thrownMsg,
                   failMsgs, apiKey>>
    /\ UNCHANGED nonGenVars

\* the setTimeout of the backoff fires: return attempt(mId, retryCount + 1)
BackoffElapsed ==
    /\ gpc = "backoff"
    /\ gpc' = "calling"
    /\ retryCount' = retryCount + 1
    /\ calls' = Append(calls, CallRec(mId, retryCount + 1, waitTime))
    /\ waitTime' = 0
    /\ inFlight' = inFlight + 1
    /\ UNCHANGED <<variant, userModelId, mId, outcomes, result, thrownMsg,
                   failMsgs, apiKey>>
    /\ UNCHANGED nonGenVars

NextGen ==
    \/ GenerateBriefing
    \/ \E o \in ProviderOutcomes : AttemptResolves(o)
    \/ BackoffElapsed

SpecGen == InitGen /\ [][NextGen]_vars

\* every await of the call chain resolves
SpecGenFair == SpecGen /\ WF_vars(NextGen)

----------------------------------------------------------------------------
(* The UI session: handlers of App (part_008) *)

FreeCycles == {k \in CycleIds : cycles[k].pc = "none"}

\* const isConnected = await checkConnectivity(config) is pending
\* initConnection up to its await: setStatus(CONNECTING)
InitConnection ==
    /\ connChecks < MaxConn
    /\ status' = "CONNECTING"
    /\ connChecks' = connChecks + 1

\* useEffect(() => { initConnection(userConfig) }, [])
Mount ==
    /\ ~mounted
    /\ mounted' = TRUE
    /\ InitConnection
    /\ UNCHANGED <<data, lastAutoRunDate, isSendingEmail, emails, cycles,
                   manualSends, day, phase, autoStarts>>
    /\ UNCHANGED sendLog
    /\ UNCHANGED nonAppVars

\* handleSaveConfig: setUserConfig, localStorage.setItem, initConnection
HandleSaveConfig ==
    /\ mounted
    /\ InitConnection
    /\ UNCHANGED <<mounted, data, lastAutoRunDate, isSendingEmail, emails,
                   cycles, manualSends, day, phase, autoStarts>>
    /\ UNCHANGED sendLog
    /\ UNCHANGED nonAppVars

\* initConnection after its await
ConnectivityResolves(isConnected) ==
    /\ connChecks > 0
    /\ connChecks' = connChecks - 1
    /\ status' = IF isConnected THEN "IDLE" ELSE "ERROR"
    /\ UNCHANGED <<mounted, data, lastAutoRunDate, isSendingEmail, emails,
                   cycles, manualSends, day, phase, autoStarts>>
    /\ UNCHANGED sendLog
    /\ UNCHANGED nonAppVars

\* faulty variation: the payload is cleared but setStatus(SEARCHING) is left
\* to the code after the pause
HandleGenerate_lateStatus(isAutoRun) ==
    /\ ~(status = "GENERATING" \/ status = "SEARCHING")
    /\ FreeCycles # {}
    /\ LET k == CHOOSE c \in FreeCycles : \A c2 \in FreeCycles : c <= c2
       IN  cycles' = [cycles EXCEPT ![k] = [pc |-> "sleep", auto |-> isAutoRun]]
    /\ data' = "null"
    /\ status' = status

\* handleGenerate up to its first await (the 800 ms pause); FALSE when the
\* guard returns early
HandleGenerate(isAutoRun) ==
    /\ ~(status = "GENERATING" \/ status = "SEARCHING")
    /\ FreeCycles # {}
    /\ LET k == CHOOSE c \in FreeCycles : \A c2 \in FreeCycles : c <= c2
       IN  cycles' = [cycles EXCEPT ![k] = [pc |-> "sleep", auto |-> isAutoRun]]
    /\ data' = "null"
    /\ status' = "SEARCHING"

\* the Generate button: onClick={() => handleGenerate(false)}, disabled
\* while status is SEARCHING or GENERATING
ClickGenerate ==
    /\ mounted
    /\ HandleGenerate(FALSE)
    /\ UNCHANGED <<mounted, lastAutoRunDate, isSendingEmail, emails,
                   connChecks, manualSends, day, phase, autoStarts>>
    /\ UNCHANGED sendLog
    /\ UNCHANGED nonAppVars

\* handleGenerate after the pause: setStatus(GENERATING) and the call of
\* generateBriefing
PauseElapsed(k) ==
    /\ cycles[k].pc = "sleep"
    /\ cycles' = [cycles EXCEPT ![k].pc = "generating"]
    /\ status' = "GENERATING"
    /\ UNCHANGED <<mounted, data, lastAutoRunDate, isSendingEmail, emails,
                   connChecks, manualSends, day, phase, autoStarts>>
    /\ UNCHANGED sendLog
    /\ UNCHANGED nonAppVars

\* faulty variation: every successful generation goes on to send
GenerateBriefingSettles_alwaysSend(k, ok) ==
    /\ cycles[k].pc = "generating"
    /\ IF ok
       THEN /\ data' = "payload"
            /\ status' = "COMPLETED"
            /\ IF emails
               THEN /\ isSendingEmail' = TRUE
                    /\ cycles' = [cycles EXCEPT ![k].pc = "sending"]
               ELSE /\ cycles' = [cycles EXCEPT ![k] = NoCycle]
                    /\ UNCHANGED isSendingEmail
       ELSE /\ status' = "ERROR"
            /\ cycles' = [cycles EXCEPT ![k] = NoCycle]
            /\ UNCHANGED <<data, isSendingEmail>>
    /\ UNCHANGED <<mounted, lastAutoRunDate, emails, connChecks, manualSends,
                   day, phase, autoStarts>>
    /\ UNCHANGED sendLog
    /\ UNCHANGED nonAppVars

\* handleGenerate after await generateBriefing: the success path up to the
\* await inside executeEmailSend(result, true), or the catch block
GenerateBriefingSettles(k, ok) ==
    /\ cycles[k].pc = "generating"
    /\ IF ok
       THEN /\ data' = "payload"
            /\ status' = "COMPLETED"
            /\ IF cycles[k].auto /\ emails
               THEN /\ isSendingEmail' = TRUE
                    /\ cycles' = [cycles EXCEPT ![k].pc = "sending"]
               ELSE /\ cycles' = [cycles EXCEPT ![k] = NoCycle]
                    /\ UNCHANGED isSendingEmail
       ELSE /\ status' = "ERROR"
            /\ cycles' = [cycles EXCEPT ![k] = NoCycle]
            /\ UNCHANGED <<data, isSendingEmail>>
    /\ UNCHANGED <<mounted, lastAutoRunDate, emails, connChecks, manualSends,
                   day, phase, autoStarts>>
    /\ UNCHANGED sendLog
    /\ UNCHANGED nonAppVars

\* addLog of the outcome sendEmail reported
SendLogLine(success) == IF success THEN "sent" ELSE "failed"

\* executeEmailSend(result, true) after await sendEmail
AutoSendSettles(k, success) ==
    /\ cycles[k].pc = "sending"
    /\ sendLog' = SendLogLine(success)
    /\ isSendingEmail' = FALSE
    /\ cycles' = [cycles EXCEPT ![k] = NoCycle]
    /\ UNCHANGED <<mounted, status, data, lastAutoRunDate, emails, connChecks,
                   manualSends, day, phase, autoStarts>>
    /\ UNCHANGED nonAppVars

\* the send button is rendered enabled: disabled={isSendingEmail || !data}
SendButtonEnabled ==
    /\ mounted
    /\ ~(isSendingEmail \/ data = "null")

\* the send button: onClick={() => executeEmailSend(data, false)}
ClickSend ==
    /\ SendButtonEnabled
    /\ manualSends < MaxCycles
    /\ IF emails
       THEN /\ isSendingEmail' = TRUE
            /\ manualSends' = manualSends + 1
       ELSE UNCHANGED <<isSendingEmail, manualSends>>
    /\ UNCHANGED <<mounted, status, data, lastAutoRunDate, emails, cycles,
                   connChecks, day, phase, autoStarts>>
    /\ UNCHANGED sendLog
    /\ UNCHANGED nonAppVars

\* faulty variation: the flag is reset on success only
ManualSendSettles_stuck(success) ==
    /\ manualSends > 0
    /\ manualSends' = manualSends - 1
    /\ sendLog' = SendLogLine(success)
    /\ isSendingEmail' = IF success THEN FALSE ELSE isSendingEmail
    /\ UNCHANGED <<mounted, status, data, lastAutoRunDate, emails, cycles,
                   connChecks, day, phase, autoStarts>>
    /\ UNCHANGED sendLog
    /\ UNCHANGED nonAppVars

\* executeEmailSend(data, false) after await sendEmail
ManualSendSettles(success) ==
    /\ manualSends > 0
    /\ manualSends' = manualSends - 1
    /\ sendLog' = SendLogLine(success)
    /\ isSendingEmail' = FALSE
    /\ UNCHANGED <<mounted, status, data, lastAutoRunDate, emails, cycles,
                   connChecks, day, phase, autoStarts>>
    /\ UNCHANGED sendLog
    /\ UNCHANGED nonAppVars

\* handleEmailChange: the recipient fields become blank / not blank
HandleEmailChange ==
    /\ mounted
    /\ emails' = ~emails
    /\ UNCHANGED <<mounted, status, data, lastAutoRunDate, isSendingEmail,
                   cycles, connChecks, manualSends, day, phase, autoStarts>>
    /\ UNCHANGED sendLog
    /\ UNCHANGED nonAppVars

\* wall-clock time passes: before 09:00, the 09:00 minute, after it, next day
ClockAdvances ==
    /\ CASE phase = "early"   -> phase' = "trigger" /\ day' = day
         [] phase = "trigger" -> phase' = "late" /\ day' = day
         [] OTHER             -> day < MaxDays /\ phase' = "early" /\ day' = day + 1
    /\ UNCHANGED <<mounted, status, data, lastAutoRunDate, isSendingEmail,
                   emails, cycles, connChecks, manualSends, autoStarts>>
    /\ UNCHANGED sendLog
    /\ UNCHANGED nonAppVars

\* faulty variation: setLastAutoRunDate is left out
CheckSchedule_noMarker ==
    /\ mounted
    /\ IF phase = "trigger" /\ lastAutoRunDate # day
          /\ (status = "IDLE" \/ status = "COMPLETED")
       THEN /\ lastAutoRunDate' = lastAutoRunDate
            /\ HandleGenerate(TRUE)
            /\ autoStarts' = [autoStarts EXCEPT ![day] = @ + 1]
       ELSE UNCHANGED <<lastAutoRunDate, status, data, cycles, autoStarts>>
    /\ UNCHANGED <<mounted, isSendingEmail, emails, connChecks, manualSends,
                   day, phase>>
    /\ UNCHANGED sendLog
    /\ UNCHANGED nonAppVars

\* checkSchedule, run by the 10-second interval timer
CheckSchedule ==
    /\ mounted
    /\ IF phase = "trigger" /\ lastAutoRunDate # day
          /\ (status = "IDLE" \/ status = "COMPLETED")
       THEN /\ lastAutoRunDate' = day
            /\ HandleGenerate(TRUE)
            /\ autoStarts' = [autoStarts EXCEPT ![day] = @ + 1]
       ELSE UNCHANGED <<lastAutoRunDate, status, data, cycles, autoStarts>>
    /\ UNCHANGED <<mounted, isSendingEmail, emails, connChecks, manualSends,
                   day, phase>>
    /\ UNCHANGED sendLog
    /\ UNCHANGED nonAppVars

\* the pipeline at rest, as the other components leave it
GenAtRest ==
    /\ variant = "gs2"
    /\ userModelId = PRIMARY_MODEL
    /\ apiKey = "sk-key"
    /\ GenIdle

InitApp ==
    /\ AppConstructed
    /\ GenAtRest
    /\ ProbeAtRest
    /\ RepairAtRest
    /\ UrlAtRest
    /\ MailAtRest
    /\ HandlerAtRest
    /\ RenderAtRest
    /\ TsxAtRest
    /\ CronAtRest
    /\ SenderAtRest
    /\ StratAtRest

NextApp ==
    \/ Mount
    \/ HandleSaveConfig
    \/ \E isConnected \in BOOLEAN : ConnectivityResolves(isConnected)
    \/ ClickGenerate
    \/ \E k \in CycleIds : PauseElapsed(k)
    \/ \E k \in CycleIds, ok \in BOOLEAN : GenerateBriefingSettles(k, ok)
    \/ \E k \in CycleIds, success \in BOOLEAN : AutoSendSettles(k, success)
    \/ ClickSend
    \/ \E success \in BOOLEAN : ManualSendSettles(success)
    \/ HandleEmailChange
    \/ ClockAdvances
    \/ CheckSchedule

SpecApp == InitApp /\ [][NextApp]_vars

----------------------------------------------------------------------------
(* The connectivity probe: connectToOpenAI, connectViaProxy, checkConnectivity *)

\* config.apiKey: absent, blank, or a key
ProbeKeys == {"", " ", "sk-key"}

\* String.prototype.trim on the keys above
Trim(k) == IF k = " " THEN "" ELSE k

\* the JSON shapes a listing answer comes in: {data: [...]}, {models: [...]},
\* a bare array; "none" is an object with neither field
ListShapes == {"data", "models", "array"}

\* How a GET <baseUrl>/models ends:
\*   network  fetch rejects with "Failed to fetch" / "NetworkError ..."
\*   rejected fetch rejects with another message
\*   http     an error status; mentionsNet says whether the first 100
\*            characters of the body contain one of the two phrases
\*   html     a 2xx answer that is an HTML page
\*   json     a 2xx JSON answer of the given shape holding the given models
ListingOutcomes ==
    {[kind |-> "network", mentionsNet |-> TRUE, shape |-> "none", list |-> <<>>],
     [kind |-> "rejected", mentionsNet |-> FALSE, shape |-> "none", list |-> <<>>],
     [kind |-> "html", mentionsNet |-> FALSE, shape |-> "none", list |-> <<>>],
     [kind |-> "json", mentionsNet |-> FALSE, shape |-> "none", list |-> <<>>]}
    \cup {[kind |-> "http", mentionsNet |-> b, shape |-> "none", list |-> <<>>] :
              b \in BOOLEAN}
    \cup {[kind |-> "json", mentionsNet |-> FALSE, shape |-> sh, list |-> l] :
              sh \in ListShapes, l \in ModelLists}

\* the relay itself cannot be reached from the browser
RelayDown == [kind |-> "relayDown", mentionsNet |-> FALSE, shape |-> "none", list |-> <<>>]

RECURSIVE InsertById(_, _)
InsertById(x, q) ==
    IF q = <<>> THEN <<x>>
    ELSE IF x <= Head(q) THEN <<x>> \o q
    ELSE <<Head(q)>> \o InsertById(x, Tail(q))

\* .sort((a, b) => a.id.localeCompare(b.id))
RECURSIVE SortById(_)
SortById(q) == IF q = <<>> THEN <<>> ELSE InsertById(Head(q), SortById(Tail(q)))

IsSortedById(q) == \A i \in 1..(Len(q) - 1) : q[i] <= q[i + 1]

\* error.message.includes('Failed to fetch') || error.message.includes('NetworkError')
\* on the error the direct request raised; an HTTP error's message carries the
\* first 100 characters of the answer's body
MessageMentionsNetwork(o) ==
    \/ o.kind = "network"
    \/ o.kind = "http" /\ o.mentionsNet

PReturn(l) == [act |-> "return", list |-> l]
PThrow == [act |-> "throw", list |-> <<>>]
PRelay == [act |-> "relay", list |-> <<>>]

\* the try/catch of connectToOpenAI around the direct request, first revision
\* (part_003 differs by naming the HTML answer in the error message)
Direct_gs1(o) ==
    IF o.kind = "json"
    THEN IF Len(o.list) = 0 THEN PThrow ELSE PReturn(SortById(o.list))
    ELSE IF MessageMentionsNetwork(o) THEN PRelay ELSE PThrow

\* the later revision: no emptiness test, no sort, no relay
Direct_gs2(o) ==
    IF o.kind = "json" THEN PReturn(o.list) ELSE PThrow

DirectStep(v, o) ==
    CASE v = "gs1" -> Direct_gs1(o)
      [] v = "p003" -> Direct_gs1(o)
      [] v = "gs2" -> Direct_gs2(o)

\* the relay's list_models branch, given how its own request upstream ended:
\* the answer it sends back
ListModelsRelay(up) ==
    IF up.kind = "json"
    THEN [ok |-> TRUE, models |-> up.list]
    ELSE [ok |-> FALSE, models |-> <<>>]

\* connectViaProxy, given the relay's answer (or RelayDown)
ConnectViaProxy(up) ==
    IF up.kind = "relayDown" THEN PThrow
    ELSE LET res == ListModelsRelay(up)
         IN  IF res.ok THEN PReturn(res.models) ELSE PThrow

\* checkConnectivity is called: no key means false at once; a blank key makes
\* connectToOpenAI throw before any request
CheckConnectivity ==
    /\ ppc = "idle"
    /\ IF pkey = "" \/ Trim(pkey) = ""
       THEN /\ ppc' = "done"
            /\ connected' = "false"
       ELSE /\ ppc' = "direct"
            /\ UNCHANGED connected
    /\ UNCHANGED <<pvariant, pkey, directOut, relayRequests, plisting, preturned, plist>>
    /\ UNCHANGED nonProbeVars

\* the direct request settles
DirectResolves(o) ==
    /\ ppc = "direct"
    /\ directOut' = o
    /\ plisting' = o.list
    /\ LET r == DirectStep(pvariant, o)
       IN  CASE r.act = "return" ->
                    /\ ppc' = "done"
                    /\ preturned' = TRUE
                    /\ plist' = r.list
                    /\ connected' = "true"
                    /\ UNCHANGED relayRequests
             [] r.act = "throw" ->
                    /\ ppc' = "done"
                    /\ connected' = "false"
                    /\ UNCHANGED <<preturned, plist, relayRequests>>
             [] r.act = "relay" ->
                    /\ ppc' = "relay"
                    /\ relayRequests' = relayRequests + 1
                    /\ UNCHANGED <<preturned, plist, connected>>
    /\ UNCHANGED <<pvariant, pkey>>
    /\ UNCHANGED nonProbeVars

\* the relay request settles
RelayResolves(up) ==
    /\ ppc = "relay"
    /\ plisting' = up.list
    /\ LET r == ConnectViaProxy(up)
       IN  IF r.act = "return"
           THEN /\ preturned' = TRUE
                /\ plist' = r.list
                /\ connected' = "true"
           ELSE /\ connected' = "false"
                /\ UNCHANGED <<preturned, plist>>
    /\ ppc' = "done"
    /\ UNCHANGED <<pvariant, pkey, directOut, relayRequests>>
    /\ UNCHANGED nonProbeVars

InitProbe ==
    /\ pvariant \in ProbeVariants
    /\ pkey \in ProbeKeys
    /\ ProbeIdle
    /\ GenAtRest
    /\ AppConstructed
    /\ RepairAtRest
    /\ UrlAtRest
    /\ MailAtRest
    /\ HandlerAtRest
    /\ RenderAtRest
    /\ TsxAtRest
    /\ CronAtRest
    /\ SenderAtRest
    /\ StratAtRest

NextProbe ==
    \/ CheckConnectivity
    \/ \E o \in ListingOutcomes : DirectResolves(o)
    \/ \E up \in ListingOutcomes \cup {RelayDown} : RelayResolves(up)

SpecProbe == InitProbe /\ [][NextProbe]_vars

----------------------------------------------------------------------------
(* extractAndRepairJson and balanceJson applied to one text *)

\* const jsonStr = extractAndRepairJson(content)
RunExtractAndRepairJson ==
    /\ rpc = "start"
    /\ rout' = ExtractAndRepairJson(rvariant, rin)
    /\ rop' = "extract"
    /\ rpc' = "done"
    /\ UNCHANGED <<rvariant, rin>>
    /\ UNCHANGED nonRepairVars

\* balanceJson(jsonStr) on its own
RunBalanceJson ==
    /\ rpc = "start"
    /\ rout' = BalanceJson(rin)
    /\ rop' = "balance"
    /\ rpc' = "done"
    /\ UNCHANGED <<rvariant, rin>>
    /\ UNCHANGED nonRepairVars

InitRepair ==
    /\ rvariant \in RepairVariants
    /\ rin \in RepairInputs
    /\ RepairIdle
    /\ GenAtRest
    /\ AppConstructed
    /\ ProbeAtRest
    /\ UrlAtRest
    /\ MailAtRest
    /\ HandlerAtRest
    /\ RenderAtRest
    /\ TsxAtRest
    /\ CronAtRest
    /\ SenderAtRest
    /\ StratAtRest

NextRepair ==
    \/ RunExtractAndRepairJson
    \/ RunBalanceJson

SpecRepair == InitRepair /\ [][NextRepair]_vars

----------------------------------------------------------------------------
(* parseUrlConfig applied to one base URL *)

\* const { baseUrl } = parseUrlConfig(config.baseUrl)
RunParseUrlConfig ==
    /\ upc = "start"
    /\ uout' = ParseUrlConfig(uvariant, uin)
    /\ upc' = "once"
    /\ UNCHANGED <<uvariant, uin, uout2>>
    /\ UNCHANGED nonUrlVars

\* parseUrlConfig applied to the baseUrl it returned
RunParseUrlConfigAgain ==
    /\ upc = "once"
    /\ uout2' = ParseUrlConfig(uvariant, uout)
    /\ upc' = "twice"
    /\ UNCHANGED <<uvariant, uin, uout>>
    /\ UNCHANGED nonUrlVars

InitUrl ==
    /\ uvariant \in UrlVariants
    /\ uin \in UrlInputs
    /\ UrlIdle
    /\ GenAtRest
    /\ AppConstructed
    /\ ProbeAtRest
    /\ RepairAtRest
    /\ MailAtRest
    /\ HandlerAtRest
    /\ RenderAtRest
    /\ TsxAtRest
    /\ CronAtRest
    /\ SenderAtRest
    /\ StratAtRest

NextUrl ==
    \/ RunParseUrlConfig
    \/ RunParseUrlConfigAgain

SpecUrl == InitUrl /\ [][NextUrl]_vars

----------------------------------------------------------------------------
(* One request handled by a handler that posts to the email relay *)

\* the handler up to its await of the relay: method and configuration tests,
\* the from address, the body test. For cron1 there is no method test, the
\* configuration test covers all of its settings, and `complete` says that the
\* briefing was generated and parsed
MailHandlerRuns(method, complete) ==
    /\ mpc = "start"
    /\ LET early ==
               IF mvariant = "cron1"
               THEN IF ~envResendKey THEN Answer(500, <<"Configuration missing">>)
                    ELSE IF ~complete THEN Answer(500, <<"generation failed">>)
                    ELSE NoAnswer
               ELSE IF method = "OPTIONS" THEN Answer(200, <<>>)
                    ELSE IF method # "POST" THEN Answer(405, <<"Method Not Allowed">>)
                    ELSE IF ~envResendKey THEN Answer(500, <<"Missing Resend API Key">>)
                    ELSE IF ~complete THEN Answer(400, <<"Missing required fields">>)
                    ELSE NoAnswer
       IN  IF early # NoAnswer
           THEN /\ mailAnswer' = early
                /\ mpc' = "answered"
                /\ UNCHANGED postedFrom
           ELSE /\ postedFrom' = FromAddress(mvariant, envFrom)
                /\ mpc' = "posted"
                /\ UNCHANGED mailAnswer
    /\ UNCHANGED <<mvariant, envFrom, envResendKey, relayAnswer>>
    /\ UNCHANGED nonMailVars

\* the relay answers (or the request fails) and the handler answers in turn
RelayAnswersMail(a) ==
    /\ mpc = "posted"
    /\ relayAnswer' = a
    /\ mailAnswer' = CASE a.kind = "ok" -> Answer(200, <<>>)
                       [] a.kind = "rejected" -> Answer(500, <<"fetch failed">>)
                       [] a.kind = "error" -> OnRelayError(mvariant, a)
    /\ mpc' = "answered"
    /\ UNCHANGED <<mvariant, envFrom, envResendKey, postedFrom>>
    /\ UNCHANGED nonMailVars

InitMail ==
    /\ mvariant \in MailVariants
    /\ envFrom \in EnvFroms
    /\ envResendKey \in BOOLEAN
    /\ MailIdle
    /\ GenAtRest
    /\ AppConstructed
    /\ ProbeAtRest
    /\ RepairAtRest
    /\ UrlAtRest
    /\ HandlerAtRest
    /\ RenderAtRest
    /\ TsxAtRest
    /\ CronAtRest
    /\ SenderAtRest
    /\ StratAtRest

NextMail ==
    \/ \E method \in {"OPTIONS", "GET", "POST"}, complete \in BOOLEAN :
           MailHandlerRuns(method, complete)
    \/ \E a \in RelayAnswers : RelayAnswersMail(a)

SpecMail == InitMail /\ [][NextMail]_vars

----------------------------------------------------------------------------
(* The /api/generate handler as a state machine (api/generate.js 161-330) *)

\* handler(request, response) up to its first await: preflight, the
\* resolution of key, base URL and model, and the first call it sends
GenerateHandlerRuns(listAction, hasDate) ==
    /\ hpc = "start"
    /\ LET customApiKey == GetHeader(reqKey)
           customBaseUrl == GetHeader(reqBaseUrl)
           customModel == GetHeader(reqModel)
           resolved == ResolveApiKey(customApiKey, envApiKey)
       IN  IF reqMethod = "OPTIONS"
           THEN /\ hpc' = "answered"
                /\ hAnswer' = 200
                /\ UNCHANGED <<keyUsed, baseUrlUsed, modelsCalled>>
           ELSE IF resolved = <<>>
           THEN /\ hpc' = "answered"
                /\ hAnswer' = 400
                /\ UNCHANGED <<keyUsed, baseUrlUsed, modelsCalled>>
           ELSE IF reqMethod = "GET" /\ listAction
           THEN /\ hpc' = "listing"
                /\ keyUsed' = CleanApiKey(resolved)
                /\ baseUrlUsed' = ResolveBaseUrl(customBaseUrl)
                /\ UNCHANGED <<modelsCalled, hAnswer>>
           ELSE IF reqMethod = "POST"
           THEN IF ~hasDate
                THEN /\ hpc' = "answered"
                     /\ hAnswer' = 400
                     /\ UNCHANGED <<keyUsed, baseUrlUsed, modelsCalled>>
                ELSE /\ hpc' = "calling"
                     /\ keyUsed' = CleanApiKey(resolved)
                     /\ baseUrlUsed' = ResolveBaseUrl(customBaseUrl)
                     /\ modelsCalled' = <<PrimaryModel(customModel, envModelId)>>
                     /\ UNCHANGED hAnswer
           ELSE /\ hpc' = "answered"
                /\ hAnswer' = 405
                /\ UNCHANGED <<keyUsed, baseUrlUsed, modelsCalled>>
    /\ reqListAction' = listAction
    /\ reqHasDate' = hasDate
    /\ UNCHANGED <<hVariant, reqMethod, reqKey, reqBaseUrl, reqModel, envApiKey, envModelId,
                   hLevel, hEnds>>
    /\ UNCHANGED nonHandlerVars

\* lines 235-259 (part_004 36-66): the fetch of <baseUrl>/models settles.
\* "html" is a 2xx answer of content type text/html: part_004 49-53 answers
\* 502, api/generate.js reads it as JSON, which throws.
ListingSettles(end) ==
    /\ hpc = "listing"
    /\ hpc' = "answered"
    /\ hAnswer' = CASE end = "ok" -> 200
                    [] end = "r429" -> 429
                    [] end = "html" /\ hVariant = "p004" -> 502
                    [] end = "notOk" -> UpstreamStatus
                    [] OTHER -> 500
    /\ UNCHANGED <<hVariant, reqMethod, reqListAction, reqHasDate, reqKey, reqBaseUrl, reqModel,
                   envApiKey, envModelId, keyUsed, baseUrlUsed, modelsCalled, hLevel, hEnds>>
    /\ UNCHANGED nonHandlerVars

\* attempt(mId, retryLevel), lines 272-319 (part_004 79-115), from the moment
\* its call settles.  "r429" is an error whose message holds 429 (in part_004
\* also "Rate limit"), "r400" one whose message holds 400 or response_format:
\* only api/generate.js has a branch for it, lines 304-310.
CompletionSettles(end) ==
    /\ hpc = "calling"
    /\ LET running == modelsCalled[Len(modelsCalled)]
           again(m) == /\ modelsCalled' = Append(modelsCalled, m)
                       /\ hLevel' = 1
                       /\ UNCHANGED <<hpc, hAnswer>>
           gives(st) == /\ hpc' = "answered"
                        /\ hAnswer' = st
                        /\ UNCHANGED <<modelsCalled, hLevel>>
       IN  CASE end = "ok" -> gives(200)
             [] end = "r429" ->
                    IF hLevel < 1 /\ running # FallbackModel
                    THEN again(FallbackModel) ELSE gives(500)
             [] end = "r400" /\ hVariant = "generate" /\ hLevel < 1 -> again(running)
             [] OTHER ->
                    IF hLevel = 0 /\ running # FallbackModel
                    THEN again(FallbackModel) ELSE gives(500)
    /\ hEnds' = Append(hEnds, end)
    /\ UNCHANGED <<hVariant, reqMethod, reqListAction, reqHasDate, reqKey, reqBaseUrl, reqModel,
                   envApiKey, envModelId, keyUsed, baseUrlUsed>>
    /\ UNCHANGED nonHandlerVars

InitHandler ==
    /\ hVariant \in HandlerVariants
    /\ reqMethod \in Methods
    /\ reqKey \in HeaderKeys
    /\ reqBaseUrl \in HeaderBaseUrls
    /\ reqModel \in HeaderModels
    /\ envApiKey \in EnvKeys
    /\ envModelId \in EnvModels
    /\ HandlerIdle
    /\ AppConstructed
    /\ ProbeAtRest
    /\ RepairAtRest
    /\ UrlAtRest
    /\ MailAtRest
    /\ GenAtRest
    /\ RenderAtRest
    /\ TsxAtRest
    /\ CronAtRest
    /\ SenderAtRest
    /\ StratAtRest

NextHandler ==
    \/ \E listAction \in BOOLEAN, hasDate \in BOOLEAN : GenerateHandlerRuns(listAction, hasDate)
    \/ \E end \in ListingEnds : ListingSettles(end)
    \/ \E end \in CompletionEnds : CompletionSettles(end)

SpecHandler == InitHandler /\ [][NextHandler]_vars

----------------------------------------------------------------------------
(* generateHtml applied to one payload *)

\* const htmlContent = generateHtml(content), api/cron.js 260
RunGenerateHtml ==
    /\ ~rendered
    /\ html' = GenerateHtml(payload)
    /\ rendered' = TRUE
    /\ UNCHANGED payload
    /\ UNCHANGED nonRenderVars

InitRender ==
    /\ payload \in Contents
    /\ html = <<>>
    /\ rendered = FALSE
    /\ AppConstructed
    /\ ProbeAtRest
    /\ RepairAtRest
    /\ UrlAtRest
    /\ MailAtRest
    /\ HandlerAtRest
    /\ GenAtRest
    /\ TsxAtRest
    /\ CronAtRest
    /\ SenderAtRest
    /\ StratAtRest

NextRender == RunGenerateHtml

SpecRender == InitRender /\ [][NextRender]_vars

----------------------------------------------------------------------------
(* The UI session of the revision with a cooldown: handlers (App.tsx 485-548) *)

\* initConnection up to its await: setStatus(CONNECTING)
TsxInitConnection ==
    /\ tsxConnChecks < MaxConn
    /\ tsxStatus' = "CONNECTING"
    /\ tsxConnChecks' = tsxConnChecks + 1

\* useEffect(() => { ... initConnection(...) }, []), lines 485-498
TsxMount ==
    /\ ~tsxMounted
    /\ tsxMounted' = TRUE
    /\ TsxInitConnection
    /\ UNCHANGED <<appRevision, tsxData, tsxCycles, cooldown, tsxLastEnd>>
    /\ UNCHANGED nonTsxVars

\* onSave: setUserConfig, localStorage.setItem, initConnection (line 565)
TsxSaveConfig ==
    /\ tsxMounted
    /\ TsxInitConnection
    /\ UNCHANGED <<appRevision, tsxMounted, tsxData, tsxCycles, cooldown, tsxLastEnd>>
    /\ UNCHANGED nonTsxVars

\* initConnection after its await, lines 512-518
TsxConnectivityResolves(isConnected) ==
    /\ tsxConnChecks > 0
    /\ tsxConnChecks' = tsxConnChecks - 1
    /\ tsxStatus' = IF isConnected THEN "IDLE" ELSE "ERROR"
    /\ UNCHANGED <<appRevision, tsxMounted, tsxData, tsxCycles, cooldown, tsxLastEnd>>
    /\ UNCHANGED nonTsxVars

\* faulty variation: the guard without the cooldown
TsxGuarded_noCooldown == tsxStatus = "GENERATING" \/ tsxStatus = "SEARCHING"

\* the guard of handleGenerate, line 527 (and of the button, line 596)
TsxGuarded == tsxStatus = "GENERATING" \/ tsxStatus = "SEARCHING" \/ cooldown > 0

\* handleGenerate up to await generateBriefing, lines 526-534
TsxHandleGenerate ==
    /\ tsxMounted
    /\ ~TsxGuarded
    /\ \E k \in CycleIds :
          /\ ~tsxCycles[k]
          /\ \A j \in CycleIds : j < k => tsxCycles[j]
          /\ tsxCycles' = [tsxCycles EXCEPT ![k] = TRUE]
    /\ tsxStatus' = "SEARCHING"
    /\ UNCHANGED <<appRevision, tsxMounted, tsxData, tsxConnChecks, cooldown, tsxLastEnd>>
    /\ UNCHANGED nonTsxVars

\* faulty variation: the catch block leaves the status as it is
TsxGenerateBriefingSettles_noCatch(k, end) ==
    /\ tsxCycles[k]
    /\ tsxCycles' = [tsxCycles EXCEPT ![k] = FALSE]
    /\ tsxLastEnd' = end
    /\ IF end = "ok"
       THEN /\ tsxData' = "payload"
            /\ tsxStatus' = "COMPLETED"
            /\ UNCHANGED cooldown
       ELSE /\ tsxStatus' = tsxStatus
            /\ cooldown' = IF end = "rateLimit" THEN CooldownSeconds ELSE cooldown
            /\ UNCHANGED tsxData
    /\ UNCHANGED <<appRevision, tsxMounted, tsxConnChecks>>
    /\ UNCHANGED nonTsxVars

\* handleGenerate after await generateBriefing, lines 535-547
TsxGenerateBriefingSettles(k, end) ==
    /\ tsxCycles[k]
    /\ tsxCycles' = [tsxCycles EXCEPT ![k] = FALSE]
    /\ tsxLastEnd' = end
    /\ IF end = "ok"
       THEN /\ tsxData' = "payload"
            /\ tsxStatus' = "COMPLETED"
            /\ UNCHANGED cooldown
       ELSE /\ tsxStatus' = "ERROR"
            /\ cooldown' = IF end = "rateLimit" THEN CooldownSeconds ELSE cooldown
            /\ UNCHANGED tsxData
    /\ UNCHANGED <<appRevision, tsxMounted, tsxConnChecks>>
    /\ UNCHANGED nonTsxVars

\* the interval timer of the cooldown effect, lines 501-506
CooldownTick ==
    /\ cooldown > 0
    /\ cooldown' = cooldown - 1
    /\ UNCHANGED <<appRevision, tsxMounted, tsxStatus, tsxData, tsxCycles, tsxConnChecks,
                   tsxLastEnd>>
    /\ UNCHANGED nonTsxVars

InitTsx ==
    /\ appRevision = "App.tsx"
    /\ TsxConstructed
    /\ AppConstructed
    /\ ProbeAtRest
    /\ RepairAtRest
    /\ UrlAtRest
    /\ MailAtRest
    /\ HandlerAtRest
    /\ RenderAtRest
    /\ GenAtRest
    /\ CronAtRest
    /\ SenderAtRest
    /\ StratAtRest

NextTsx ==
    \/ TsxMount
    \/ TsxSaveConfig
    \/ \E isConnected \in BOOLEAN : TsxConnectivityResolves(isConnected)
    \/ TsxHandleGenerate
    \/ \E k \in CycleIds, end \in BriefingEnds : TsxGenerateBriefingSettles(k, end)
    \/ CooldownTick

SpecTsx == InitTsx /\ [][NextTsx]_vars

\* A session of either revision
InitSession == InitApp \/ InitTsx

NextSession ==
    \/ appRevision = "part_008" /\ NextApp
    \/ appRevision = "App.tsx" /\ NextTsx

SpecSession == InitSession /\ [][NextSession]_vars

\* Every timer fires, and every provider call and every send resolves
FairSession ==
    /\ \A k \in CycleIds :
          /\ WF_vars(appRevision = "part_008" /\ PauseElapsed(k))
          /\ WF_vars(appRevision = "part_008"
                        /\ \E ok \in BOOLEAN : GenerateBriefingSettles(k, ok))
          /\ WF_vars(appRevision = "part_008"
                        /\ \E success \in BOOLEAN : AutoSendSettles(k, success))
          /\ WF_vars(appRevision = "App.tsx"
                        /\ \E end \in BriefingEnds : TsxGenerateBriefingSettles(k, end))
    /\ WF_vars(appRevision = "App.tsx" /\ CooldownTick)

SpecSessionFair == SpecSession /\ FairSession

----------------------------------------------------------------------------
(* One run of the cron handler *)

\* handler up to await client.chat.completions.create
CronHandlerRuns ==
    /\ cronPc = "start"
    /\ IF ConfigurationMissing(cronVariant, cronApiKey, cronResendKey, cronRecipientList)
       THEN /\ cronPc' = "answered"
            /\ cronStatus' = 500
            /\ UNCHANGED cronCalls
       ELSE /\ cronPc' = "generating"
            /\ cronCalls' = Append(cronCalls, "provider")
            /\ UNCHANGED cronStatus
    /\ UNCHANGED <<cronVariant, cronApiKey, cronResendKey, cronRecipientList,
                   cronCompletion, cronRelayEnd>>
    /\ UNCHANGED nonCronVars

\* faulty variation: the email is sent whatever the content
ReachesRelay_unparsed(v, c) ==
    c.kind = "choice"

\* does the handler get from the completion to the fetch of the relay
ReachesRelay(v, c) ==
    /\ c.kind = "choice"
    /\ ~(v = "cron2" /\ c.finish \in {"content_filter", "safety"})
    /\ JsonParse(TextToParse(v, c.text)).ok
    /\ GenerateHtmlReturns(JsonParse(TextToParse(v, c.text)).val)

\* the handler from the completion to await fetch(relay), or to its catch
CronCompletionSettles(c) ==
    /\ cronPc = "generating"
    /\ cronCompletion' = c
    /\ IF ReachesRelay(cronVariant, c)
       THEN /\ cronPc' = "sending"
            /\ cronCalls' = Append(cronCalls, "relay")
            /\ UNCHANGED cronStatus
       ELSE /\ cronPc' = "answered"
            /\ cronStatus' = 500
            /\ UNCHANGED cronCalls
    /\ UNCHANGED <<cronVariant, cronApiKey, cronResendKey, cronRecipientList, cronRelayEnd>>
    /\ UNCHANGED nonCronVars

\* the handler after the fetch of the relay: lines 128-136, 277-284
CronRelaySettles(end) ==
    /\ cronPc = "sending"
    /\ cronRelayEnd' = end
    /\ cronPc' = "answered"
    /\ cronStatus' = IF end = "ok" THEN 200 ELSE 500
    /\ UNCHANGED <<cronVariant, cronApiKey, cronResendKey, cronRecipientList,
                   cronCalls, cronCompletion>>
    /\ UNCHANGED nonCronVars

InitCron ==
    /\ cronVariant \in CronVariants
    /\ cronApiKey \in CronKeys
    /\ cronResendKey \in CronResendKeys
    /\ cronRecipientList \in RecipientLists
    /\ CronIdle
    /\ AppConstructed
    /\ ProbeAtRest
    /\ RepairAtRest
    /\ UrlAtRest
    /\ MailAtRest
    /\ HandlerAtRest
    /\ RenderAtRest
    /\ TsxAtRest
    /\ GenAtRest
    /\ SenderAtRest
    /\ StratAtRest

NextCron ==
    \/ CronHandlerRuns
    \/ \E c \in Completions : CronCompletionSettles(c)
    \/ \E end \in RelayEnds : CronRelaySettles(end)

SpecCron == InitCron /\ [][NextCron]_vars

----------------------------------------------------------------------------
(* Sending the briefing from the UI: handlers *)

\* the mount effect up to await checkConnectivity
SenderMount ==
    /\ ~sMounted
    /\ sMounted' = TRUE
    /\ sStatus' = "CONNECTING"
    /\ UNCHANGED <<sVariant, sData, sEmails, sSending, sCycle, sRanToday, sInFlight, sDispatched>>
    /\ UNCHANGED nonSenderVars

\* the mount effect after await checkConnectivity
SenderConnectivityResolves(isConnected) ==
    /\ sMounted
    /\ sStatus = "CONNECTING"
    /\ sStatus' = IF isConnected THEN "IDLE" ELSE "ERROR"
    /\ UNCHANGED <<sVariant, sMounted, sData, sEmails, sSending, sCycle, sRanToday,
                   sInFlight, sDispatched>>
    /\ UNCHANGED nonSenderVars

\* handleGenerate(isAutoRun) up to the 800 ms pause
SenderHandleGenerate(isAutoRun) ==
    /\ sMounted
    /\ ~(sStatus = "GENERATING" \/ sStatus = "SEARCHING")
    /\ sCycle = "none"
    /\ IF isAutoRun
       THEN /\ ~sRanToday
            /\ sStatus = "IDLE" \/ sStatus = "COMPLETED"
            /\ sRanToday' = TRUE
       ELSE UNCHANGED sRanToday
    /\ sData' = "null"
    /\ sStatus' = "SEARCHING"
    /\ sCycle' = IF isAutoRun THEN "auto" ELSE "manual"
    /\ UNCHANGED <<sVariant, sMounted, sEmails, sSending, sInFlight, sDispatched>>
    /\ UNCHANGED nonSenderVars

\* the date changes: lastAutoRunDate no longer equals today's
SenderNewDay ==
    /\ sRanToday
    /\ sRanToday' = FALSE
    /\ UNCHANGED <<sVariant, sMounted, sStatus, sData, sEmails, sSending, sCycle,
                   sInFlight, sDispatched>>
    /\ UNCHANGED nonSenderVars

\* executeEmailSend(content, isAuto) up to await sendEmail
ExecuteEmailSend(content) ==
    IF Dispatches(sVariant, content, sEmails)
    THEN /\ sInFlight < MaxSends
         /\ sSending' = TRUE
         /\ sInFlight' = sInFlight + 1
         /\ sDispatched' = sDispatched \cup
                {[content |-> content, recipients |-> ActiveEmails(sEmails)]}
    ELSE UNCHANGED <<sSending, sInFlight, sDispatched>>

\* handleGenerate from the pause to the end of await generateBriefing, and on
\* into executeEmailSend(result, true) for a scheduled run
SenderGenerateBriefingSettles(ok) ==
    /\ sCycle # "none"
    /\ sCycle' = "none"
    /\ IF ok
       THEN /\ sData' = "payload"
            /\ sStatus' = "COMPLETED"
            /\ IF sCycle = "auto"
               THEN ExecuteEmailSend("payload")
               ELSE UNCHANGED <<sSending, sInFlight, sDispatched>>
       ELSE /\ sStatus' = "ERROR"
            /\ UNCHANGED <<sData, sSending, sInFlight, sDispatched>>
    /\ UNCHANGED <<sVariant, sMounted, sEmails, sRanToday>>
    /\ UNCHANGED nonSenderVars

\* the send button (part_008 354) / handleTestEmail (App.tsx 148-150)
SenderClickSend ==
    /\ sMounted
    /\ SenderButtonEnabled(sVariant)
    /\ ExecuteEmailSend(sData)
    /\ UNCHANGED <<sVariant, sMounted, sStatus, sData, sEmails, sCycle, sRanToday>>
    /\ UNCHANGED nonSenderVars

\* executeEmailSend after await sendEmail
SenderSendSettles ==
    /\ sInFlight > 0
    /\ sInFlight' = sInFlight - 1
    /\ sSending' = FALSE
    /\ UNCHANGED <<sVariant, sMounted, sStatus, sData, sEmails, sCycle, sRanToday,
                   sDispatched>>
    /\ UNCHANGED nonSenderVars

\* handleEmailChange(index, value)
SenderEmailChange(index, value) ==
    /\ sMounted
    /\ sEmails' = [sEmails EXCEPT ![index] = value]
    /\ UNCHANGED <<sVariant, sMounted, sStatus, sData, sSending, sCycle, sRanToday,
                   sInFlight, sDispatched>>
    /\ UNCHANGED nonSenderVars

InitSender ==
    /\ sVariant \in SenderVariants
    /\ SenderConstructed
    /\ AppConstructed
    /\ ProbeAtRest
    /\ RepairAtRest
    /\ UrlAtRest
    /\ MailAtRest
    /\ HandlerAtRest
    /\ RenderAtRest
    /\ TsxAtRest
    /\ CronAtRest
    /\ GenAtRest
    /\ StratAtRest

NextSender ==
    \/ SenderMount
    \/ \E isConnected \in BOOLEAN : SenderConnectivityResolves(isConnected)
    \/ \E isAutoRun \in BOOLEAN : SenderHandleGenerate(isAutoRun)
    \/ SenderNewDay
    \/ \E ok \in BOOLEAN : SenderGenerateBriefingSettles(ok)
    \/ SenderClickSend
    \/ SenderSendSettles
    \/ \E index \in 1..2, value \in FieldTexts : SenderEmailChange(index, value)

SpecSender == InitSender /\ [][NextSender]_vars

----------------------------------------------------------------------------
(* The stability-priority strategy as a state machine (part_001 132-149, *)
(* part_006 166-180) *)

\* the call that is running, or that settled last
Running == spCalls[Len(spCalls)]

\* line 138: executeGeneration(PRIMARY_MODEL, isGeminiNative, 0)
StrategyStarts ==
    /\ spPc = "idle"
    /\ spPc' = "calling"
    /\ spCalls' = <<Generation(spVariant, 1, spPrimary, IsGeminiNative(spPrimary), 0)>>
    /\ UNCHANGED <<spVariant, spPrimary, spFallback, spEnds>>
    /\ UNCHANGED nonStratVars

\* executeGeneration from the moment generateContent settles, lines 116-129,
\* and the catch blocks of the strategy, lines 139-148; ok stands for a text
\* that JSON.parse accepts
GenerationSettles(ok) ==
    /\ spPc = "calling"
    /\ spEnds' = Append(spEnds, IF ok THEN "ok" ELSE "fail")
    /\ IF ok
       THEN spPc' = "returned" /\ UNCHANGED spCalls
       ELSE IF Running.retryCount > 0
       THEN spPc' = "waiting" /\ UNCHANGED spCalls
       ELSE IF Running.stage < 3
       THEN /\ spCalls' = Append(spCalls, StrategyCatch(spVariant, Running.stage, spPrimary, spFallback))
            /\ UNCHANGED spPc
       ELSE spPc' = "threw" /\ UNCHANGED spCalls
    /\ UNCHANGED <<spVariant, spPrimary, spFallback>>
    /\ UNCHANGED nonStratVars

\* await delay(1000) is over: the retry of lines 124-126
RetryDelayElapses ==
    /\ spPc = "waiting"
    /\ spPc' = "calling"
    /\ spCalls' = Append(spCalls, RetryOf(spVariant, Running))
    /\ UNCHANGED <<spVariant, spPrimary, spFallback, spEnds>>
    /\ UNCHANGED nonStratVars

InitStrat ==
    /\ spVariant \in StrategyVariants
    /\ spPrimary \in PrimaryModels
    /\ spFallback \in FallbackModels
    /\ StratIdle
    /\ AppConstructed
    /\ ProbeAtRest
    /\ RepairAtRest
    /\ UrlAtRest
    /\ MailAtRest
    /\ HandlerAtRest
    /\ RenderAtRest
    /\ TsxAtRest
    /\ CronAtRest
    /\ SenderAtRest
    /\ GenAtRest

NextStrat ==
    \/ StrategyStarts
    \/ \E ok \in BOOLEAN : GenerationSettles(ok)
    \/ RetryDelayElapses

SpecStrat == InitStrat /\ [][NextStrat]_vars

----------------------------------------------------------------------------
(* Properties of one generateBriefing call *)

Done == gpc \in {"returned", "thrown"}

\* the provider calls issued so far, as <<model, level>> pairs
CallList == [i \in DOMAIN calls |-> <<calls[i].model, calls[i].level>>]

All429 == \A i \in DOMAIN outcomes : outcomes[i] = "http429"

IsPrefix(s, t) == Len(s) <= Len(t) /\ \A i \in DOMAIN s : s[i] = t[i]

Levels0to3(m) == <<(<<m, 0>>), (<<m, 1>>), (<<m, 2>>), (<<m, 3>>)>>

\* the model after m in the fallback ordering ("" after the last one); a
\* user-selected primary model takes the place of PRIMARY_MODEL
NextInOrder(m) ==
    CASE m = SECONDARY_FALLBACK_MODEL -> ""
      [] m = FALLBACK_MODEL -> SECONDARY_FALLBACK_MODEL
      [] OTHER -> FALLBACK_MODEL

Rank(m) ==
    CASE m = SECONDARY_FALLBACK_MODEL -> 3
      [] m = FALLBACK_MODEL -> 2
      [] OTHER -> 1

Always429Calls(v) ==
    IF v \in {"gs2", "gs3"}
    THEN Levels0to3(PRIMARY_MODEL) \o Levels0to3(FALLBACK_MODEL)
    ELSE Levels0to3(PRIMARY_MODEL) \o Levels0to3(FALLBACK_MODEL)
            \o Levels0to3(SECONDARY_FALLBACK_MODEL)

C2_AllModelsCalled ==
    (userModelId = PRIMARY_MODEL /\ gpc = "thrown") =>
        \A m \in {PRIMARY_MODEL, FALLBACK_MODEL, SECONDARY_FALLBACK_MODEL} :
            \E i \in DOMAIN calls : calls[i].model = m

NonTransient == {"empty", "missingFields", "safety", "refusal", "refusal429",
                 "badJson", "shortText"}

\* C3: after an empty body, missing fields, a safety refusal or unparseable
\* output, at any retry level, the next call is to the next model of the
\* ordering at level 0, and the call fails only when there is no next model
\* (stated for the default primary model).
C3_ImmediateFallback ==
    \A i \in DOMAIN outcomes :
        (userModelId = PRIMARY_MODEL /\ outcomes[i] \in NonTransient) =>
            IF NextInOrder(calls[i].model) = ""
            THEN i = Len(calls) /\ gpc = "thrown"
            ELSE /\ i < Len(calls)
                 /\ calls[i + 1] = CallRec(NextInOrder(calls[i].model), 0, 0)

\* 2, 4, 8 seconds for L = 0, 1, 2
ExpectedWaitMs == <<2000, 4000, 8000>>

\* C4: a 429 at level L < 3 is followed by a call to the same model at level
\* L+1, issued after a wait of 2^(L+1) seconds, and by nothing else: until
\* the wait is over no call is in flight.
C4_Backoff ==
    \A i \in DOMAIN outcomes :
        (outcomes[i] = "http429" /\ calls[i].level < 3) =>
            IF i < Len(calls)
            THEN calls[i + 1] = CallRec(calls[i].model, calls[i].level + 1,
                                        ExpectedWaitMs[calls[i].level + 1])
            ELSE /\ gpc = "backoff"
                 /\ inFlight = 0
                 /\ waitTime = ExpectedWaitMs[calls[i].level + 1]

C4_Witness ==
    /\ Len(outcomes) >= 3
    /\ \A i \in 1..3 : outcomes[i] = "http429"
    /\ Len(calls) >= 4
    /\ calls[4].level = 3 /\ calls[4].waited = 8000

\* C5: a 429 at level 3 is followed by a call to the next fallback model at
\* level 0, whichever model was selected as primary; only a 429 of the last
\* model of the ordering ends the call with the rate-limit error.
C5_CeilingFallback ==
    \A i \in DOMAIN outcomes :
        (outcomes[i] = "http429" /\ calls[i].level = 3) =>
            IF NextInOrder(calls[i].model) = ""
            THEN i = Len(calls) /\ gpc = "thrown"
            ELSE /\ i < Len(calls)
                 /\ calls[i + 1] = CallRec(NextInOrder(calls[i].model), 0, 0)

CallsTo(m) == Cardinality({i \in DOMAIN calls : calls[i].model = m})

\* C9: a generateBriefing call makes at most 4 provider calls per model and
\* at most 12 in all, and it ends (returns or throws) when every provider
\* call and every backoff timer resolves.
C9_Terminates ==
    /\ [](Len(calls) <= 12 /\ \A m \in ModelIds : CallsTo(m) <= 4)
    /\ <>Done

C9_Witness == Len(calls) = 12 /\ gpc = "thrown"

\* C10: the models are called in the order of the fallback list, never
\* returning to an earlier one, and the calls to one model have increasing
\* levels, so a model that was called at level 3 is not called again.
C10_Order ==
    \A i, j \in DOMAIN calls :
        i < j =>
            /\ Rank(calls[i].model) <= Rank(calls[j].model)
            /\ calls[i].model = calls[j].model => calls[i].level < calls[j].level

C10_Witness ==
    /\ Len(calls) >= 6
    /\ calls[4] = CallRec(PRIMARY_MODEL, 3, 8000)
    /\ calls[5].model = FALLBACK_MODEL
    /\ calls[Len(calls)].model = SECONDARY_FALLBACK_MODEL

\* C11: the error generateBriefing throws carries the message of the failure
\* of the last provider call, whatever earlier calls failed with, and a
\* payload is returned only when the last provider call did not fail.
C11_LastErrorSurfaced ==
    /\ gpc = "thrown" =>
          /\ Len(failMsgs) = Len(calls)
          /\ thrownMsg = failMsgs[Len(failMsgs)]
    /\ gpc = "returned" =>
          /\ outcomes[Len(outcomes)] = "json"
          /\ Len(failMsgs) = Len(calls) - 1

\* a failed call whose two attempts failed with different messages
C11_Witness ==
    /\ gpc = "thrown" /\ variant = "gs2"
    /\ Len(failMsgs) >= 2
    /\ failMsgs[1] # failMsgs[Len(failMsgs)]
    /\ thrownMsg = "500 server error"

\* C12: with no resolvable API key generateBriefing fails with a
\* configuration error before any provider call is issued.
C12_NoKeyNoCall ==
    apiKey = "" => (calls = <<>> /\ inFlight = 0)

\* C25: within one generateBriefing call at most one provider call is in
\* flight: every call but the last has resolved before the next is issued, and
\* none is in flight while the backoff delay runs.
C25_OneCallInFlight ==
    /\ inFlight <= 1
    /\ inFlight = Len(calls) - Len(outcomes)
    /\ gpc = "backoff" => inFlight = 0
    /\ gpc \in {"returned", "thrown"} => inFlight = 0

C25_Witness ==
    /\ variant = "gs2"
    /\ inFlight = 1
    /\ Len(calls) >= 3
    /\ \E i \in 1..Len(calls) : calls[i].waited > 0
    /\ \E i \in 1..Len(calls) : calls[i].model # calls[1].model

----------------------------------------------------------------------------
(* Properties of the UI session *)

Generating == {k \in CycleIds : cycles[k].pc = "generating"}

\* C7: in every reachable state of the session at most one generateBriefing
\* call is in flight.
C7_OneCycleInFlight == Cardinality(Generating) <= 1

\* C8: the scheduler starts at most one scheduled generation per calendar
\* day.
C8_OncePerDay == \A d \in DOMAIN autoStarts : autoStarts[d] <= 1

\* a scheduled run of today is over, it is still 09:00 and the status would
\* let the scheduler start another one
C8_Witness ==
    /\ day = 2 /\ phase = "trigger"
    /\ autoStarts[1] = 1 /\ autoStarts[2] = 1
    /\ status = "COMPLETED"
    /\ \A k \in CycleIds : cycles[k].pc = "none"

\* executeEmailSend invocations waiting on sendEmail
SendsInFlight ==
    manualSends + Cardinality({k \in CycleIds : cycles[k].pc = "sending"})

----------------------------------------------------------------------------
(* Properties of the connectivity probe *)

ProbeDone == ppc = "done"

\* C13: checkConnectivity returns true exactly when the listing answer held at
\* least one model; an empty list yields false, directly or through the relay.
C13_TrueIffModels ==
    ProbeDone => (connected = "true" <=> Len(plisting) >= 1)

\* C14: a relay request is sent only after the direct request failed at the
\* network level, never after an HTTP error status, and at most once.
C14_RelayOnlyOnNetworkFailure ==
    /\ relayRequests <= 1
    /\ relayRequests > 0 => directOut.kind = "network"

\* C15: the list connectToOpenAI returns is in ascending order of model id,
\* whichever path produced it (revisions that have a relay path).
C15_ReturnedListSorted ==
    (pvariant \in {"gs1", "p003"} /\ preturned) => IsSortedById(plist)

----------------------------------------------------------------------------
(* Properties of JSON extraction and repair *)

Extracted == rpc = "done" /\ rop = "extract"

\* C17: for a syntactically valid JSON object s, extractAndRepairJson(s)
\* parses, and to the value s parses to -- also when a string of s holds a
\* comma followed by } or ].
C17_ValidObjectKept ==
    (Extracted /\ rin \in ValidObjects)
        => /\ JsonParse(rout).ok
           /\ JsonParse(rout).val = JsonParse(rin).val

\* C18: for an object text cut off with a string, an array and the object
\* open, extractAndRepairJson (the revision that balances) returns a text that
\* parses to an object holding the keys written before the cut.
C18_TruncationRecovered ==
    (Extracted /\ rvariant = "gs2" /\ rin \in TruncatedTexts)
        => /\ IsJsonObject(rout)
           /\ {<<"a">>, <<"b">>} \subseteq ObjectKeys(rout)

\* C19: the text balanceJson returns is closed: scanned by the same rules it
\* ends outside any string with nothing left on the stack.
C19_BalancedIsClosed ==
    (rpc = "done" /\ rop = "balance")
        => /\ ~Scan(rout).inString
           /\ Scan(rout).stack = <<>>

\* C20: for a valid object with commentary before and/or after it,
\* extractAndRepairJson returns exactly the text from the first { to the last },
\* which parses to the object.
C20_SpanReturned ==
    (Extracted /\ rin \in CommentaryTexts)
        => /\ rout = SubSeq(rin, IndexOf(rin, "{"), LastIndexOf(rin, "}"))
           /\ IsJsonObject(rout)

\* the text from the first { to the last }
BraceSpan(s) == SubSeq(s, IndexOf(s, "{"), LastIndexOf(s, "}"))

\* C21: for a valid object inside a Markdown fence -- with or without a
\* language tag, with or without whitespace after the closing fence --
\* extractAndRepairJson (the revision of generate.js) returns a text that
\* parses to that object.
C21_FencedObjectParsed ==
    (Extracted /\ rvariant = "gs2" /\ rin \in FencedTexts)
        => /\ JsonParse(rout).ok
           /\ JsonParse(rout).val = JsonParse(BraceSpan(rin)).val

\* C22: when the text holds no {, extractAndRepairJson returns the text with
\* the fence removed and trimmed, otherwise unchanged.
C22_NoBraceUnchanged ==
    (Extracted /\ IndexOf(rin, "{") = 0) => rout = StripFences(rin)

----------------------------------------------------------------------------
(* Properties of parseUrlConfig *)

\* C23: normalizing a normalized base URL changes nothing.
C23_Idempotent ==
    upc = "twice" => uout2 = uout

\* the URL was typed without a scheme
NoScheme(urlStr) == ~Includes(urlStr, <<":", "/", "/">>)

\* C24: for a non-empty base URL without a scheme, parseUrlConfig returns a
\* URL that starts with https:// and ends with /v1, unless the input already
\* holds a /v1 segment or the /api/ marker.
C24_SchemeAndVersion ==
    (upc # "start" /\ uin # <<>> /\ NoScheme(uin))
        => /\ StartsWith(uout, HTTPS)
           /\ (MatchesV1(DropTrailingSlash(TrimWs(uin))) \/ Includes(uin, API)
                   \/ EndsWith(uout, V1))

----------------------------------------------------------------------------
(* Properties of the handlers that post to the email relay *)

\* the request to the relay was sent
Posted == mpc = "posted" \/ relayAnswer # NoRelayAnswer

\* the relay's own error text: its body, or the message of its JSON body
RelayErrorTexts(a) ==
    {<<a.body.raw>>}
    \cup (IF a.body.json /\ ~a.body.isNull /\ a.body.message # ""
          THEN {<<a.body.message>>} ELSE {})

\* C26: when the relay answers with an error status, the send-email handler
\* answers with an error status and its error text is the relay's, unmodified.
C26_RelayErrorPassedThrough ==
    (mpc = "answered" /\ relayAnswer.kind = "error" /\ mvariant \in {"se1", "se2"})
        => /\ mailAnswer.status \notin 200..299
           /\ mailAnswer.error \in RelayErrorTexts(relayAnswer)

\* C27: the from address posted to the relay contains @.
C27_FromHasAt ==
    Posted => Includes(postedFrom, <<"@">>)

----------------------------------------------------------------------------
(* Properties of the /api/generate handler *)

\* a header that carries a value
Present(val) == val # <<>>

\* C28: the key that a request's calls carry is the x-custom-api-key header's
\* value when the header is present, else process.env.API_KEY; the model of
\* the first completion is the x-custom-model header's value when present,
\* else process.env.GEMINI_MODEL_ID when set, else 'gemini-1.5-pro'.  A
\* request with neither key is answered 400 without any call.
C28_Precedence ==
    /\ (hpc # "start" /\ (Present(reqKey) \/ Present(envApiKey)) /\ hpc \in {"listing", "calling"})
          => keyUsed = CleanApiKey(IF Present(reqKey) THEN GetHeader(reqKey) ELSE envApiKey)
    /\ modelsCalled # <<>>
          => modelsCalled[1] = (IF Present(reqModel) THEN GetHeader(reqModel)
                                ELSE IF Present(envModelId) THEN envModelId
                                ELSE Gemini15Pro)
    /\ (hpc # "start" /\ reqMethod # "OPTIONS" /\ ~Present(reqKey) /\ ~Present(envApiKey))
          => hpc = "answered" /\ hAnswer = 400 /\ modelsCalled = <<>> /\ keyUsed = <<>>

\* both a header and an environment value are there, and the call is out
C28_Witness ==
    /\ hpc = "calling"
    /\ Present(reqKey) /\ Present(envApiKey)
    /\ Present(reqModel) /\ Present(envModelId)
    /\ keyUsed = <<"h">>
    /\ modelsCalled = <<<<"m">>>>

----------------------------------------------------------------------------
(* Properties of generateHtml *)

\* the pieces of h that belong to S, in the order of h
Only(h, S) == LET In(x) == x \in S IN SelectSeq(h, In)

TitlesCn(items) == [i \in 1..Len(items) |-> items[i].title_cn]

Range(f) == {f[i] : i \in DOMAIN f}

\* C29: the HTML of a payload holds the viral titles and the news items in
\* payload order, holds the local title (title_cn) of every news item, and
\* has no section for an empty array: neither the viral boxes nor the news
\* headings appear when their array is empty.
C29_RenderInOrder ==
    (rendered /\ html # Threw) =>
        /\ Only(html, {"v1", "v2"}) = payload.viral_titles
        /\ Only(html, {"w1"}) = payload.medical_viral_titles
        /\ Only(html, {"cn1", "cn2", "cn3"})
              = TitlesCn(payload.general_news) \o TitlesCn(payload.medical_news)
        /\ \A t \in Range(TitlesCn(payload.general_news \o payload.medical_news)) :
              t \in Range(html)
        /\ payload.viral_titles = <<>> => ViralBox \notin Range(html)
        /\ payload.medical_viral_titles = <<>> => HealthBox \notin Range(html)
        /\ payload.general_news = <<>> => GlobalHead \notin Range(html)
        /\ payload.medical_news = <<>> => MedicalHead \notin Range(html)

----------------------------------------------------------------------------
(* Properties of a generation cycle of the UI session *)

\* handleGenerate's guard would return early
Locked ==
    IF appRevision = "part_008"
    THEN status = "GENERATING" \/ status = "SEARCHING"
    ELSE TsxGuarded

\* cycle k is between its start and the end of await generateBriefing
InCycle(k) ==
    IF appRevision = "part_008"
    THEN cycles[k].pc \in {"sleep", "generating"}
    ELSE tsxCycles[k]

Ended == {"COMPLETED", "ERROR"}

\* C30: when every timer fires and every provider call and send resolves,
\* each generation cycle that has started comes to its end with the status
\* set to COMPLETED or ERROR, and whenever handleGenerate's guard is closed
\* it is open again later.
C30_GuardReleased ==
    /\ \A k \in CycleIds :
          InCycle(k) ~> (/\ ~InCycle(k)
                         /\ (IF appRevision = "part_008" THEN status ELSE tsxStatus) \in Ended)
    /\ Locked ~> ~Locked

\* a cycle has run to its end and the guard is open again
C30_Witness ==
    /\ ~Locked
    /\ \A k \in CycleIds : ~InCycle(k)
    /\ \/ appRevision = "part_008" /\ status = "COMPLETED" /\ data = "payload"
       \/ appRevision = "App.tsx" /\ tsxStatus = "COMPLETED" /\ tsxData = "payload"

----------------------------------------------------------------------------
(* Properties of the cron handler *)

\* a configuration variable is not set
ConfigUnset == <<>> \in {cronApiKey, cronResendKey, cronRecipientList}

\* the generation returned a content that (repaired, in the later revision)
\* parses as JSON
ParsedContent ==
    /\ cronCompletion.kind = "choice"
    /\ JsonParse(IF cronVariant = "cron2" THEN ExtractAndRepairJson_gs3(cronCompletion.text)
                 ELSE cronCompletion.text).ok

\* C31: the relay is called at most once, after the one provider call has
\* returned a content that parses as JSON; a run with a configuration
\* variable unset, a failed generation or an unparsable content is answered
\* 500 without a relay call; 200 is answered only when the relay accepted.
C31_RelayAfterParse ==
    /\ "relay" \in Range(cronCalls) => cronCalls = <<"provider", "relay">> /\ ParsedContent
    /\ (cronPc = "answered" /\ (ConfigUnset \/ ~ParsedContent))
          => cronStatus = 500 /\ "relay" \notin Range(cronCalls)
    /\ cronStatus = 200 => cronRelayEnd = "ok" /\ "relay" \in Range(cronCalls)

\* a run that went through: generated, parsed, sent, answered 200
C31_Witness ==
    /\ cronPc = "answered"
    /\ cronStatus = 200
    /\ cronCalls = <<"provider", "relay">>
    /\ ParsedContent

----------------------------------------------------------------------------
(* Properties of sending the briefing from the UI *)

\* C32: every call of sendEmail carries a generated payload and at least
\* one recipient: executeEmailSend dispatches nothing while no briefing is
\* held or while every recipient field is blank.
C32_NoEmptyDispatch ==
    \A call \in sDispatched : call.content # "null" /\ call.recipients # <<>>

----------------------------------------------------------------------------
(* Properties of the automatic send of the UI session *)

\* cycle k goes on into executeEmailSend(result, true) in this step
AutoSendStarts(k) == cycles'[k].pc = "sending" /\ cycles[k].pc # "sending"

\* C33: a send is started from handleGenerate only by a run that
\* checkSchedule started, in the step in which that run's generateBriefing
\* succeeded; the end of a manual run or of a failed run starts no send.
C33_AutoSendOnlyScheduled ==
    [][\A k \in CycleIds :
          /\ AutoSendStarts(k)
                => /\ cycles[k].auto
                   /\ cycles[k].pc = "generating"
                   /\ status' = "COMPLETED" /\ data' = "payload"
          /\ (cycles'[k].auto /\ ~cycles[k].auto) => autoStarts' # autoStarts
          /\ (cycles[k].pc = "generating" /\ cycles'[k].pc # "generating"
                 /\ (~cycles[k].auto \/ status' = "ERROR"))
                => /\ SendsInFlight' = SendsInFlight
                   /\ isSendingEmail' = isSendingEmail]_vars

\* a scheduled run has generated its briefing and is sending it
C33_Witness ==
    \E k \in CycleIds :
        /\ cycles[k].pc = "sending" /\ cycles[k].auto
        /\ status = "COMPLETED" /\ data = "payload"
        /\ \E d \in DOMAIN autoStarts : autoStarts[d] > 0

----------------------------------------------------------------------------
(* Properties of the payload on display *)

\* C34: whenever the status is COMPLETED a payload is held, and a step that
\* clears the payload is a step that sets the status to SEARCHING.
C34_CompletedHoldsPayload ==
    /\ [](status = "COMPLETED" => data # "null")
    /\ [][(data # "null" /\ data' = "null") => status' = "SEARCHING"]_vars

\* a second cycle has completed: the payload was cleared at its start and is
\* held again
C34_Witness ==
    /\ status = "COMPLETED"
    /\ data = "payload"
    /\ day = 2 /\ autoStarts[1] = 1
    /\ \A k \in CycleIds : cycles[k].pc = "none"

----------------------------------------------------------------------------
(* Properties of the cooldown (App.tsx 500-548) *)

\* a cycle leaves await generateBriefing in this step with a 429 error
RateLimitedEnds ==
    /\ \E k \in CycleIds : tsxCycles[k] /\ ~tsxCycles'[k]
    /\ tsxLastEnd' = "rateLimit"

\* a cycle starts in this step
TsxCycleStarts == \E k \in CycleIds : ~tsxCycles[k] /\ tsxCycles'[k]

\* C35: the cooldown counter stays within 0..30; a cycle that ends with a
\* 429 error sets it to 30, nothing else raises it, it goes down only by
\* one per tick, and a cycle starts only at 0: 30 ticks lie between a 429
\* failure and the next start.
C35_Cooldown ==
    /\ [](cooldown \in 0..30)
    /\ [][/\ RateLimitedEnds => cooldown' = 30
          /\ TsxCycleStarts => cooldown = 0 /\ cooldown' = 0
          /\ cooldown' # cooldown
                => \/ cooldown' = cooldown - 1
                   \/ RateLimitedEnds]_vars

\* a cycle failed with 429, the cooldown ran out, and the next cycle is on
C35_Witness ==
    /\ tsxLastEnd = "rateLimit"
    /\ cooldown = 0
    /\ \E k \in CycleIds : tsxCycles[k]

----------------------------------------------------------------------------
(* Properties of the /api/generate handler: refusals (api/generate.js *)
(* 161-330, part_004 3-126) *)

\* the header or the environment supplies a key: apiKey of line 222 is truthy
KeyResolvable == Present(reqKey) \/ Present(envApiKey)

\* the handler has sent a request to the provider
UpstreamRequested == baseUrlUsed # <<>> \/ modelsCalled # <<>> \/ hpc \in {"listing", "calling"}

\* the handler answered st and sent nothing to the provider
Refused(st) == hpc = "answered" /\ hAnswer = st /\ ~UpstreamRequested

\* the request is none of OPTIONS, GET ?action=list_models, POST
Unsupported ==
    /\ reqMethod \notin {"OPTIONS", "POST"}
    /\ ~(reqMethod = "GET" /\ reqListAction)

\* C36 as stated: every request without a resolvable key, and every POST
\* without a date, is answered 400 with no upstream request, and every
\* request that is neither OPTIONS, a supported GET action nor POST is
\* answered 405.
C36_RefusedAsStated ==
    hpc # "start" =>
        /\ (~KeyResolvable \/ (reqMethod = "POST" /\ ~reqHasDate)) => Refused(400)
        /\ Unsupported => Refused(405)

\* C36: the handler tests in this order and sends nothing upstream in any of
\* these cases: an OPTIONS request is answered 200; any other request with
\* no key in header or environment is answered 400; a POST with a key
\* and no date is answered 400; a request with a key that is neither
\* GET ?action=list_models nor POST is answered 405.
C36_Refused ==
    hpc # "start" =>
        /\ reqMethod = "OPTIONS" => Refused(200)
        /\ (reqMethod # "OPTIONS" /\ ~KeyResolvable) => Refused(400)
        /\ (reqMethod = "POST" /\ KeyResolvable /\ ~reqHasDate) => Refused(400)
        /\ (Unsupported /\ KeyResolvable) => Refused(405)

\* a request of an unsupported method and without a key was answered 400
C36_Witness ==
    /\ reqMethod = "PUT"
    /\ ~KeyResolvable
    /\ Refused(400)

----------------------------------------------------------------------------
(* Properties of the /api/generate handler: the calls of one POST *)
(* (api/generate.js 272-326, part_004 79-122) *)

\* retryLevel stays within 0..1 and one POST sends at most two completions
AtMostTwoCalls == hLevel \in {0, 1} /\ Len(modelsCalled) <= 2

\* 'gpt-4o-mini' is requested at most once
FallbackCalledOnce ==
    Cardinality({i \in DOMAIN modelsCalled : modelsCalled[i] = FallbackModel}) <= 1

\* a second completion that failed is answered 500
LevelOneFailureIs500 ==
    (Len(hEnds) = 2 /\ hEnds[2] # "ok") => (hpc = "answered" /\ hAnswer = 500)

\* C37: every POST is handled with at most two provider calls: retryLevel
\* never exceeds 1, the fallback model 'gpt-4o-mini' is called at most once,
\* and a failure at retryLevel 1 is answered 500.
C37_TwoCallsFallbackOnce ==
    /\ AtMostTwoCalls
    /\ FallbackCalledOnce
    /\ LevelOneFailureIs500

----------------------------------------------------------------------------
(* Properties of the stability-priority strategy *)

\* call number i has settled as a failure
FailedCall(i) == i <= Len(spEnds) /\ spEnds[i] = "fail"

\* C38: the fallback model is called only after three failed calls to the
\* primary model (the initial call, then a call and its one retry, both
\* without thinking); no call after the first has thinking enabled; one run
\* of the strategy makes at most five calls.
C38_StabilityPriority ==
    /\ Len(spCalls) <= 5
    /\ \A i \in DOMAIN spCalls :
          /\ i > 1 => ~spCalls[i].thinking
          /\ spCalls[i].stage < 3 => spCalls[i].modelName = spPrimary
          /\ spCalls[i].stage = 3 =>
                /\ i \in {4, 5}
                /\ spCalls[i].modelName = spFallback
                /\ \A j \in 1..3 : FailedCall(j) /\ spCalls[j].modelName = spPrimary
                /\ <<spCalls[1].retryCount, spCalls[2].retryCount, spCalls[3].retryCount>>
                       = <<0, 1, 0>>

\* all five calls were made, the first with thinking enabled, and the
\* strategy gave up
C38_Witness ==
    /\ spPc = "threw"
    /\ Len(spCalls) = 5
    /\ spCalls[1].thinking
    /\ spCalls[4].modelName = spFallback

====
